---- MODULE Spec2Model ----
(***************************************************************************)
(* A model of the VT-json tile decoder of harp.gl                          *)
(* (@here/harp-omv-datasource/lib/VTJsonDataAdapter.ts).                   *)
(*                                                                         *)
(* The adapter is called through canProcess(data) and                      *)
(* process(tile, tileKey, geoBox).  process walks tile.features in order   *)
(* and hands world-space geometry to an IGeometryProcessor.  One loop      *)
(* iteration of process (one feature) is one action; the calls received by *)
(* the geometry processor are recorded in `calls`.                         *)
(*                                                                         *)
(* Numbers.  Tile-local coordinates are integers.  Longitudes are counted   *)
(* in units of 360/2^MaxLevel degrees, latitudes by their slippy-tile row  *)
(* fraction in units of 1/2^MaxLevel, and world coordinates in units of    *)
(* EQUATORIAL_CIRCUMFERENCE / 2^(MaxLevel+12), so that the transform of a  *)
(* tile-aligned GeoBox is exact in integer arithmetic.                     *)
(***************************************************************************)
EXTENDS Integers, Sequences, FiniteSets, TLC

(***************************************************************************)
(* Bounds of the model.                                                    *)
(***************************************************************************)
\* Largest total number of coordinate pairs in the geometry of a feature.
MaxVerts == 3
\* Largest number of rings of a polygon / sub-paths of a line string.
MaxRings == 3
\* Largest number of features of a tile.
MaxFeatures == 3
\* Deepest tile level; it also fixes the units of longitude and latitude.
MaxLevel == 2

(***************************************************************************)
(* Constants of the program.                                               *)
(***************************************************************************)
\* const extent = 4096;
extent == 4096
\* const N = Math.log2(extent);
N == 12
\* let minX = Infinity: a value above every tile-local coordinate.
Infinity == 1000000

\* enum VTJsonGeometryType { Unknown, Point, LineString, Polygon }
Unknown == 0
Point == 1
LineString == 2
Polygon == 3

RECURSIVE Pow2(_)
\* Math.pow(2, n)
Pow2(n) == IF n <= 0 THEN 1 ELSE 2 * Pow2(n - 1)

\* Math.min / Math.max
Min(a, b) == IF a <= b THEN a ELSE b
Max(a, b) == IF a >= b THEN a ELSE b

\* 360 and 180 degrees in longitude units.
Deg360 == Pow2(MaxLevel)
Deg180 == Pow2(MaxLevel - 1)

\* EarthConstants.EQUATORIAL_CIRCUMFERENCE, in world units.
EQUATORIAL_CIRCUMFERENCE == Pow2(MaxLevel + N)

\* lat2tile(lat, zoom) of OmvUtils: the slippy-tile row of a latitude at a zoom
\* level.  A latitude is given by its row fraction lat / 2^MaxLevel.
lat2tile(lat, zoom) == (lat * Pow2(zoom)) \div Pow2(MaxLevel)

\* isArrayBufferLike(data) of OmvUtils: whether data is a raw binary buffer.
isArrayBufferLike(data) == data.kind = "buffer"

(***************************************************************************)
(* process: the basis of the coordinate transform (lines 100-106).         *)
(***************************************************************************)
\* const scale = Math.pow(2, tileKey.level + N);
ScaleOf(tileKey) == Pow2(tileKey.level + N)
\* const top = lat2tile(north, tileKey.level + N);
TopOf(tileKey, geoBox) == lat2tile(geoBox.north, tileKey.level + N)
\* LeftOf with 2^level for scale: the left edge counted in tiles.
LeftOfInTiles(tileKey, geoBox) ==
    ((geoBox.west + Deg180) * Pow2(tileKey.level)) \div Deg360

\* const left = ((west + 180) / 360) * scale;
LeftOf(tileKey, geoBox) == ((geoBox.west + Deg180) * ScaleOf(tileKey)) \div Deg360

\* Position with top and left taken for each other.
PositionTopLeft(x, y, left, top, scale) ==
    [x |-> ((top + x) * EQUATORIAL_CIRCUMFERENCE) \div scale,
     y |-> ((left + y) * EQUATORIAL_CIRCUMFERENCE) \div scale,
     z |-> 0]

\* new Vector3(((left + x) / scale) * R, ((top + y) / scale) * R, 0)
\* The product is taken before the quotient, which is exact on integers.
Position(x, y, left, top, scale) ==
    [x |-> ((left + x) * EQUATORIAL_CIRCUMFERENCE) \div scale,
     y |-> ((top + y) * EQUATORIAL_CIRCUMFERENCE) \div scale,
     z |-> 0]

\* convertGeometryType(type)
convertGeometryType(type) ==
    CASE type = Point -> "point"
      [] type = LineString -> "line"
      [] type = Polygon -> "polygon"
      [] OTHER -> "unknown"

\* { ...a, ...b }: the keys of both, b's value where both have the key.
Spread(a, b) ==
    [k \in (DOMAIN a) \cup (DOMAIN b) |-> IF k \in DOMAIN b THEN b[k] ELSE a[k]]

\* MakeEnv with the tags spread last: a tag overrides a synthesized key.
MakeEnvTagsLast(feature, t, key) ==
    Spread([k \in {"$layer", "$geometryType", "$level"} |->
               CASE k = "$layer" -> t.layer
                 [] k = "$geometryType" -> convertGeometryType(feature.type)
                 [] OTHER -> key.level],
           feature.tags)

\* new MapEnv({...feature.tags, $layer, $geometryType, $level})
MakeEnv(feature, t, key) ==
    Spread(feature.tags,
           [k \in {"$layer", "$geometryType", "$level"} |->
               CASE k = "$layer" -> t.layer
                 [] k = "$geometryType" -> convertGeometryType(feature.type)
                 [] OTHER -> key.level])

(***************************************************************************)
(* process: the Polygon case (lines 153-212).                              *)
(***************************************************************************)
\* OutlineFlag without the test of the border y = extent.
OutlineFlagThreeBorders(currX, currY, nextX, nextY) ==
    ~ (\/ (currX = 0 /\ nextX = 0)
       \/ (currX = extent /\ nextX = extent)
       \/ (currY = 0 /\ nextY = 0))

\* The outline flag pushed for the edge from (currX, currY) to (nextX, nextY).
OutlineFlag(currX, currY, nextX, nextY) ==
    ~ (\/ (currX = 0 /\ nextX = 0)
       \/ (currX = extent /\ nextX = extent)
       \/ (currY = 0 /\ nextY = 0)
       \/ (currY = extent /\ nextY = extent))

\* The locals of one iteration of the ring loop before its vertex loop.
RingStart ==
    [minX |-> Infinity, minY |-> Infinity, maxX |-> 0, maxY |-> 0,
     ring |-> [positions |-> <<>>, outlines |-> <<>>]]

RECURSIVE VertexLoopOpenEdges(_, _, _, _, _)
\* VertexLoop with an outline flag for every edge but the one that closes the
\* ring: the last vertex gets a position and no flag.
VertexLoopOpenEdges(outline, coordIdx, st, seenRings, basis) ==
    IF coordIdx > Len(outline) THEN st
    ELSE
      LET currX == outline[coordIdx][1]
          currY == outline[coordIdx][2]
          nextX == outline[(coordIdx % Len(outline)) + 1][1]
          nextY == outline[(coordIdx % Len(outline)) + 1][2]
          position == Position(currX, currY, basis.left, basis.top, basis.scale)
      IN  VertexLoopOpenEdges(outline, coordIdx + 1,
            [minX |-> IF seenRings THEN Min(st.minX, currX) ELSE st.minX,
             minY |-> IF seenRings THEN Min(st.minY, currY) ELSE st.minY,
             maxX |-> IF seenRings THEN Max(st.maxX, currX) ELSE st.maxX,
             maxY |-> IF seenRings THEN Max(st.maxY, currY) ELSE st.maxY,
             ring |-> [positions |-> Append(st.ring.positions, position),
                       outlines |-> IF coordIdx < Len(outline)
                                    THEN Append(st.ring.outlines,
                                                OutlineFlag(currX, currY, nextX, nextY))
                                    ELSE st.ring.outlines]],
            seenRings, basis)

RECURSIVE VertexLoop(_, _, _, _, _)
\* for (let coordIdx = 0; coordIdx < outline.length; ++coordIdx) { ... }
\* coordIdx counts from 1 here; st holds minX, minY, maxX, maxY and ring;
\* seenRings is polygon.rings.length > 0; basis is left, top and scale.
VertexLoop(outline, coordIdx, st, seenRings, basis) ==
    IF coordIdx > Len(outline) THEN st
    ELSE
      LET currX == outline[coordIdx][1]
          currY == outline[coordIdx][2]
          nextX == outline[(coordIdx % Len(outline)) + 1][1]
          nextY == outline[(coordIdx % Len(outline)) + 1][2]
          position == Position(currX, currY, basis.left, basis.top, basis.scale)
      IN  VertexLoop(outline, coordIdx + 1,
            [minX |-> IF seenRings THEN Min(st.minX, currX) ELSE st.minX,
             minY |-> IF seenRings THEN Min(st.minY, currY) ELSE st.minY,
             maxX |-> IF seenRings THEN Max(st.maxX, currX) ELSE st.maxX,
             maxY |-> IF seenRings THEN Max(st.maxY, currY) ELSE st.maxY,
             ring |-> [positions |-> Append(st.ring.positions, position),
                       outlines |-> Append(st.ring.outlines,
                                      OutlineFlag(currX, currY, nextX, nextY))]],
            seenRings, basis)

\* CoversTile with the upper corner compared to the last coordinate inside the
\* tile instead of extent.
CoversTileInside(st) ==
    st.minX = 0 /\ st.minY = 0 /\ st.maxX = extent - 1 /\ st.maxY = extent - 1

\* if (minX === 0 && minY === 0 && maxX === extent && maxY === extent)
CoversTile(st) ==
    st.minX = 0 /\ st.minY = 0 /\ st.maxX = extent /\ st.maxY = extent

\* SeenRings with >= for >: the bounding box of every ring is accumulated.
SeenRingsOrNone(polygon) == Len(polygon.rings) >= 0

\* if (polygon.rings.length > 0): the bounding box is accumulated only then.
SeenRings(polygon) == Len(polygon.rings) > 0

RECURSIVE RingLoopCarries(_, _, _, _)
\* RingLoop with minX, minY, maxX and maxY of the ring before kept for the
\* ring: neither declared anew nor reset between the two.
RingLoopCarries(geometry, ringIdx, polygon, basis) ==
    IF ringIdx > Len(geometry)
    THEN [polygonValid |-> TRUE, polygon |-> polygon]
    ELSE
      LET before == IF ringIdx >= 2
                    THEN VertexLoop(geometry[ringIdx - 1], 1, RingStart,
                                    Len(polygon.rings) > 1, basis)
                    ELSE RingStart
          st == VertexLoop(geometry[ringIdx], 1,
                           [before EXCEPT !.ring = RingStart.ring],
                           SeenRings(polygon), basis)
      IN  IF CoversTile(st)
          THEN [polygonValid |-> FALSE, polygon |-> polygon]
          ELSE RingLoopCarries(geometry, ringIdx + 1,
                               [rings |-> Append(polygon.rings, st.ring)], basis)

RECURSIVE JoinedRings(_, _, _)
\* The coordinate pairs of the rings from index a to index b, in a row.
JoinedRings(geometry, a, b) ==
    IF a > b THEN <<>> ELSE geometry[a] \o JoinedRings(geometry, a + 1, b)

RECURSIVE RingLoopPerPolygon(_, _, _, _)
\* RingLoop with minX, minY, maxX and maxY declared once for the polygon and
\* never reset: every ring adds to the bounding box of the rings before it.
RingLoopPerPolygon(geometry, ringIdx, polygon, basis) ==
    IF ringIdx > Len(geometry)
    THEN [polygonValid |-> TRUE, polygon |-> polygon]
    ELSE
      LET before == VertexLoop(JoinedRings(geometry, 2, ringIdx - 1), 1, RingStart,
                               TRUE, basis)
          st == VertexLoop(geometry[ringIdx], 1,
                           [before EXCEPT !.ring = RingStart.ring],
                           SeenRings(polygon), basis)
      IN  IF CoversTile(st)
          THEN [polygonValid |-> FALSE, polygon |-> polygon]
          ELSE RingLoopPerPolygon(geometry, ringIdx + 1,
                                  [rings |-> Append(polygon.rings, st.ring)], basis)

RECURSIVE RingLoopUnshift(_, _, _, _)
\* RingLoop with the ring put at the front of polygon.rings (unshift for push).
RingLoopUnshift(geometry, ringIdx, polygon, basis) ==
    IF ringIdx > Len(geometry)
    THEN [polygonValid |-> TRUE, polygon |-> polygon]
    ELSE
      LET st == VertexLoop(geometry[ringIdx], 1, RingStart,
                           SeenRings(polygon), basis)
      IN  IF CoversTile(st)
          THEN [polygonValid |-> FALSE, polygon |-> polygon]
          ELSE RingLoopUnshift(geometry, ringIdx + 1,
                               [rings |-> <<st.ring>> \o polygon.rings], basis)

RECURSIVE RingLoop(_, _, _, _)
\* for (const outline of feature.geometry) { ... }: the rings from ringIdx on,
\* with polygon the rings pushed so far.  The result is polygonValid and polygon.
RingLoop(geometry, ringIdx, polygon, basis) ==
    IF ringIdx > Len(geometry)
    THEN [polygonValid |-> TRUE, polygon |-> polygon]
    ELSE
      LET st == VertexLoop(geometry[ringIdx], 1, RingStart,
                           SeenRings(polygon), basis)
      IN  IF CoversTile(st)
          THEN [polygonValid |-> FALSE, polygon |-> polygon]
          ELSE RingLoop(geometry, ringIdx + 1,
                        [rings |-> Append(polygon.rings, st.ring)], basis)

(***************************************************************************)
(* process: the LineString case (lines 137-152).                           *)
(***************************************************************************)
\* const line = { positions: [] }; for (const [x, y] of lineGeometry) push
LineOf(lineGeometry, basis) ==
    [positions |->
        [k \in 1..Len(lineGeometry) |->
            Position(lineGeometry[k][1], lineGeometry[k][2],
                     basis.left, basis.top, basis.scale)]]

(***************************************************************************)
(* The calls received by the geometry processor.  `feature` is not an      *)
(* argument of the call: it records the index (from 1) of the feature the  *)
(* loop of process was at when it made the call.                           *)
(***************************************************************************)
Call(fn, layer, geometry, e, level, feature) ==
    [fn |-> fn, layer |-> layer, geometry |-> geometry, env |-> e,
     level |-> level, feature |-> feature]

\* PointCalls with the call after the loop: one call with all the positions.
PointCallsBatched(feature, e, layer, level, basis, idx) ==
    <<Call("processPointFeature", layer,
           [k \in 1..Len(feature.geometry) |->
               Position(feature.geometry[k][1], feature.geometry[k][2],
                        basis.left, basis.top, basis.scale)],
           e, level, idx)>>

\* The calls of the Point case (lines 117-136): one per coordinate pair.
PointCalls(feature, e, layer, level, basis, idx) ==
    [k \in 1..Len(feature.geometry) |->
        Call("processPointFeature", layer,
             <<Position(feature.geometry[k][1], feature.geometry[k][2],
                        basis.left, basis.top, basis.scale)>>,
             e, level, idx)]

\* LineCalls with the call after the loop: one call with all the lines.
LineCallsBatched(feature, e, layer, level, basis, idx) ==
    <<Call("processLineFeature", layer,
           [k \in 1..Len(feature.geometry) |-> LineOf(feature.geometry[k], basis)],
           e, level, idx)>>

\* The calls of the LineString case (lines 137-152): one per sub-path.
LineCalls(feature, e, layer, level, basis, idx) ==
    [k \in 1..Len(feature.geometry) |->
        Call("processLineFeature", layer, <<LineOf(feature.geometry[k], basis)>>,
             e, level, idx)]

\* PolygonCalls with a polygon without rings not emitted.
PolygonCallsWithRings(feature, e, layer, level, basis, idx) ==
    LET r == RingLoop(feature.geometry, 1, [rings |-> <<>>], basis)
    IN  IF r.polygonValid /\ r.polygon.rings # <<>>
        THEN <<Call("processPolygonFeature", layer, <<r.polygon>>, e, level, idx)>>
        ELSE <<>>

\* The calls of the Polygon case (lines 153-212): one if polygonValid.
PolygonCalls(feature, e, layer, level, basis, idx) ==
    LET r == RingLoop(feature.geometry, 1, [rings |-> <<>>], basis)
    IN  IF r.polygonValid
        THEN <<Call("processPolygonFeature", layer, <<r.polygon>>, e, level, idx)>>
        ELSE <<>>

(***************************************************************************)
(* canProcess (lines 80-97).                                               *)
(***************************************************************************)
\* The fields of a tile object canProcess looks at, and one it does not.
TileFields == {"features", "source", "x", "y", "z", "layer"}

\* canProcess without the test of tile.z.
canProcessNoZ(d) ==
    IF isArrayBufferLike(d) THEN FALSE
    ELSE IF \/ d.fields["features"] = "undefined"
            \/ d.fields["source"] = "undefined"
            \/ d.fields["x"] = "undefined"
            \/ d.fields["y"] = "undefined"
         THEN FALSE
         ELSE TRUE

canProcess(d) ==
    IF isArrayBufferLike(d) THEN FALSE
    ELSE IF \/ d.fields["features"] = "undefined"
            \/ d.fields["source"] = "undefined"
            \/ d.fields["x"] = "undefined"
            \/ d.fields["y"] = "undefined"
            \/ d.fields["z"] = "undefined"
         THEN FALSE
         ELSE TRUE

(***************************************************************************)
(* The inputs.                                                             *)
(***************************************************************************)
\* The sequences over S of length at most n.
BoundedSeq(S, n) == UNION {[1..k -> S] : k \in 0..n}

\* Tile-local coordinate pairs: the four corners of the tile and an inner point.
Positions == {<<0, 0>>, <<extent, 0>>, <<extent, extent>>, <<0, extent>>, <<7, 7>>}

RECURSIVE Sum(_)
Sum(lens) == IF lens = <<>> THEN 0 ELSE Head(lens) + Sum(Tail(lens))

RECURSIVE Split(_, _)
\* The sequence flat cut into consecutive pieces of the lengths lens.
Split(flat, lens) ==
    IF lens = <<>> THEN <<>>
    ELSE <<SubSeq(flat, 1, Head(lens))>>
            \o Split(SubSeq(flat, Head(lens) + 1, Len(flat)), Tail(lens))

\* The ways to cut n coordinate pairs into at most MaxRings rings (sub-paths),
\* empty ones included.
Cuts(n) == {lens \in BoundedSeq(0..n, MaxRings) : Sum(lens) = n}

\* The ring of section 8.3 of the specification: the whole tile.
SquareRing == <<<<0, 0>>, <<extent, 0>>, <<extent, extent>>, <<0, extent>>>>

\* Rings that reach into the buffer around the tile: their bounding box holds
\* the tile without being it.
BufferRings ==
    {<<<<0 - 64, 0 - 64>>, <<extent + 64, extent + 64>>>>,
     <<<<0, 0>>, <<extent, extent>>, <<0 - 64, extent>>>>,
     <<<<0, 0>>, <<extent, extent>>, <<0, extent + 64>>>>}

\* Tag sets: none, a plain one, and one whose tags bear the synthesized names.
NoTags == [k \in {} |-> ""]
PlainTags == "kind" :> "river"
ShadowTags ==
    ("kind" :> "river") @@ ("$layer" :> "bogus") @@
    ("$geometryType" :> "bogus") @@ ("$level" :> 99)
TagSets == {NoTags, PlainTags, ShadowTags}

Feature(type, geometry, tags) == [type |-> type, geometry |-> geometry, tags |-> tags]

\* One feature of each behaviour, for the tiles of several features.
SampleFeatures ==
    {Feature(Unknown, <<>>, PlainTags),
     Feature(4, <<>>, NoTags),
     Feature(Point, <<<<7, 7>>, <<0, 0>>>>, ShadowTags),
     Feature(LineString, <<<<<<0, 0>>, <<7, 7>>>>, <<<<extent, 0>>>>>>, PlainTags),
     Feature(Polygon, <<SquareRing>>, NoTags),
     Feature(Polygon, <<<<<<7, 7>>>>, <<<<0, 0>>, <<extent, extent>>>>>>, PlainTags)}

Tile(features, layer) == [features |-> features, layer |-> layer]

\* Tile keys: one tile of level 1 and one of level MaxLevel.
TileKey(level, column, row) == [level |-> level, column |-> column, row |-> row]
TileKeys == {TileKey(1, 1, 0), TileKey(MaxLevel, 1, Pow2(MaxLevel) - 1)}

\* The GeoBox of a tile: its west edge and the row fraction of its north edge.
GeoBoxOf(key) ==
    [west |-> key.column * Pow2(MaxLevel - key.level) - Deg180,
     north |-> key.row * Pow2(MaxLevel - key.level)]

\* The inputs of canProcess: a raw buffer, or an object with each field defined
\* or undefined.
Buffer == [kind |-> "buffer"]
Objects == {[kind |-> "object", fields |-> f] :
               f \in [TileFields -> {"defined", "undefined"}]}
Datas == {Buffer} \cup Objects

(***************************************************************************)
(* The state.                                                              *)
(***************************************************************************)
(***************************************************************************)
(*                              MapControls                                *)
(*                                                                         *)
(* Numbers are integers on grids.  Time counts ticks of a quarter of a     *)
(* second, and a start time is kept as the time elapsed since it, up to    *)
(* one tick more than the duration of its animation.  Zoom levels count    *)
(* halves of zoomLevelDeltaOnMouseWheel.                                   *)
(* Angles in radians count units of pi / 12; the number of degrees of the  *)
(* same angle is RAD2DEG times larger on that scale.  The pointer moves on *)
(* a grid whose step gives, with the delta factors, one unit of angle, and *)
(* PanScale units of length on the ground.  What easing and lengths give   *)
(* between two grid values is rounded towards the start value or down.     *)
(***************************************************************************)
zoomInertiaDampingDuration == 2
panInertiaDampingDuration == 4
tiltToggleDuration == 2
zoomLevelDeltaOnMouseWheel == 2
\* mapView.minZoomLevel and mapView.maxZoomLevel, copied by the constructor
MinZoomLevel == 0
MaxZoomLevel == 4
\* 180 / Math.PI, rounded
RAD2DEG == 57
DEFAULT_MAX_PITCH_ANGLE == 3
TiltAngle == 3
\* const EPSILON = 0.01: below every grid value but 0
EPSILON == 1
USER_INPUTS_TO_CONSIDER == 5
rotationMouseDeltaFactor == RAD2DEG
orbitingMouseDeltaFactor == RAD2DEG
orbitingTouchDeltaFactor == RAD2DEG
PanScale == 320

Abs(a) == IF a >= 0 THEN a ELSE 0 - a
Sign(a) == IF a > 0 THEN 1 ELSE IF a < 0 THEN 0 - 1 ELSE 0
\* The quotient rounded towards 0.
Quot(a, b) == Sign(a) * (Abs(a) \div b)
Cube(a) == a * a * a

degToRad(degrees) == Quot(degrees, RAD2DEG)
radToDeg(radians) == radians * RAD2DEG
clamp(value, min, max) == Max(min, Min(max, value))

\* Points of the screen; the ray through OffMap misses the ground.
ScreenPoints == {<<0, 0>>, <<1, 1>>}
OffMap == <<2, 2>>
Null == <<>>
\* MapViewUtils.rayCastWorldCoordinates: the point of the ground under a
\* point of the screen, or null.
rayCastWorldCoordinates(point) ==
    IF point = OffMap THEN Null ELSE <<point[1] * PanScale, point[2] * PanScale>>

VecSub(a, b) == <<a[1] - b[1], a[2] - b[2]>>
\* Vector.length(), rounded down
VecLength(v) ==
    IF v[1] = 0 THEN Abs(v[2])
    ELSE IF v[2] = 0 THEN Abs(v[1])
    ELSE CHOOSE r \in 0..(Abs(v[1]) + Abs(v[2])) :
            r * r <= v[1] * v[1] + v[2] * v[2]
                /\ (r + 1) * (r + 1) > v[1] * v[1] + v[2] * v[2]
\* Vector.setLength(length): a vector without length stays as it is.
VecSetLength(v, length) ==
    IF VecLength(v) = 0 THEN v
    ELSE <<Quot(v[1] * length, VecLength(v)), Quot(v[2] * length, VecLength(v))>>

\* Math.atan2(y, x) for the differences of grid points, which are multiples
\* of pi / 4.
atan2(y, x) ==
    CASE x > 0 /\ y = 0 -> 0
      [] x > 0 /\ y > 0 -> 3
      [] x = 0 /\ y > 0 -> 6
      [] x < 0 /\ y > 0 -> 9
      [] x < 0 /\ y = 0 -> 12
      [] x < 0 /\ y < 0 -> 0 - 9
      [] x = 0 /\ y < 0 -> 0 - 6
      [] x > 0 /\ y < 0 -> 0 - 3
      [] OTHER -> 0

\* easeOutCubic(startValue, endValue, time) for time = elapsed / duration,
\* at most 1.
easeOutCubic(startValue, endValue, elapsed, duration) ==
    LET left == duration - Min(elapsed, duration)
    IN  startValue
          + Quot((endValue - startValue) * (Cube(duration) - Cube(left)), Cube(duration))

\* The MapView as the controls see it: its zoom level, the pitch of its
\* camera, whether its camera is below minCameraHeight, its projection and
\* the listeners of AfterRender in the order in which they were added.
NewMapView(projection, zoomLevel, pitch, belowMinHeight) ==
    [zoomLevel |-> zoomLevel, pitch |-> pitch, belowMinHeight |-> belowMinHeight,
     projection |-> projection, afterRender |-> <<>>]

\* The fields of a MapControls after its constructor (lines 134-312).  The
\* fields every function writes before it reads them (m_mouseDelta, the
\* three animation times and m_currentInertialPanningSpeed) are values of
\* the functions, not fields of the record.
NewControls(tiltEnabled, rotateEnabled, inertiaEnabled) ==
    [enabled |-> TRUE,
     tiltEnabled |-> tiltEnabled,
     rotateEnabled |-> rotateEnabled,
     inertiaEnabled |-> inertiaEnabled,
     tiltAngle |-> TiltAngle,
     minZoomLevel |-> MinZoomLevel,
     maxZoomLevel |-> MaxZoomLevel,
     m_lastMousePosition |-> <<0, 0>>,
     m_needsRenderLastFrame |-> TRUE,
     m_panIsAnimated |-> FALSE,
     m_panDistanceFrameDelta |-> <<0, 0>>,
     sincePanAnimationStart |-> panInertiaDampingDuration + 1,
     m_lastAveragedPanDistance |-> 0,
     m_lastPanVector |-> <<0, 0>>,
     m_recentPanDistances |-> <<0, 0, 0, 0, 0>>,
     m_currentPanDistanceIndex |-> 0,
     m_zoomIsAnimated |-> FALSE,
     m_zoomDeltaRequested |-> 0,
     m_zoomTargetNormalizedCoordinates |-> <<0, 0>>,
     sinceZoomAnimationStart |-> zoomInertiaDampingDuration + 1,
     m_startZoom |-> 0,
     m_targetedZoom |-> <<>>,
     m_currentZoom |-> <<>>,
     m_tiltIsAnimated |-> FALSE,
     m_pitchRequested |-> <<>>,
     sinceTiltAnimationStart |-> tiltToggleDuration + 1,
     m_startPitch |-> 0,
     m_targetedPitch |-> <<>>,
     m_currentPitch |-> <<>>,
     m_tiltState |-> <<>>,
     m_state |-> "NONE",
     m_minPitchAngle |-> 0,
     m_maxPitchAngle |-> DEFAULT_MAX_PITCH_ANGLE,
     m_cleanupMouseEventListeners |-> FALSE,
     m_touchState |-> [touches |-> <<>>, currentRotation |-> 0, initialRotation |-> 0]]

\* The listeners bindInputEvents adds to the DOM element (lines 808-813).
BoundListeners ==
    {<<"domElement", type>> :
        type \in {"contextmenu", "mousedown", "wheel", "touchstart", "touchend",
                  "touchmove"}}

\* What a call of a handler or of a public function did: the events it
\* dispatched and the writes to the camera the grid does not keep.
Trace(call, dispatched, effects) ==
    [call |-> call, dispatched |-> dispatched, effects |-> effects]
NoTrace == Trace("none", <<>>, <<>>)

VARIABLES
    pc,          \* "idle", "process" (inside process) or "canProcess"
    tile,        \* process: the tile argument
    tileKey,     \* process: the tileKey argument
    geoBox,      \* process: the geoBox argument
    basis,       \* process: the locals scale, top and left
    featureIdx,  \* process: the number of features the loop has handled
    env,         \* process: the environment built for the last feature handled
    calls,       \* the calls the geometry processor has received
    data,        \* canProcess: the argument
    returned,    \* canProcess: the value returned
    memo,        \* a finished call of process a caller has noted, if any
    heap,        \* the vectors a caller of the projection holds
    last,        \* the last call of the projection, if any
    controls,    \* the fields of the MapControls
    mapView,     \* the MapView of the controls
    listeners,   \* the listeners of the controls on the DOM element and on window
    trace,       \* what the last call of the controls did
    steps,       \* how many things have happened to the controls, up to MaxSteps
    m_dataFilter,  \* the field m_dataFilter of the adapter
    given        \* the filter last given to the adapter's constructor or setter

vars == <<pc, tile, tileKey, geoBox, basis, featureIdx, env, calls, data, returned,
          memo, heap, last, controls, mapView, listeners, trace, steps,
          m_dataFilter, given>>

\* The state process and canProcess never touch.
elsewhere == <<memo, heap, last, controls, mapView, listeners, trace, steps,
               m_dataFilter, given>>

NoTile == Tile(<<>>, "")
NoTileKey == TileKey(0, 0, 0)
NoGeoBox == [west |-> 0, north |-> 0]
NoBasis == [scale |-> 1, top |-> 0, left |-> 0]
NoEnv == NoTags
NoMemo == <<>>
\* An OmvFeatureFilter: what it wants, and how often it has been asked.  The
\* adapter may hold none.
NoFilter == <<>>
Filters ==
    {NoFilter, <<[wants |-> "all", asked |-> 0]>>, <<[wants |-> "nothing", asked |-> 0]>>}
NoCall == <<>>
Vector(x, y, z) == [x |-> x, y |-> y, z |-> z]
Slots == {"a", "fresh"}
NoHeap == [s \in Slots |-> [v |-> Vector(0, 0, 0), from |-> <<>>]]

Init ==
    /\ pc = "idle"
    /\ tile = NoTile
    /\ tileKey = NoTileKey
    /\ geoBox = NoGeoBox
    /\ basis = NoBasis
    /\ featureIdx = 0
    /\ env = NoEnv
    /\ calls = <<>>
    /\ data = Buffer
    /\ returned = FALSE
    /\ memo = NoMemo
    /\ heap = NoHeap
    /\ last = NoCall
    /\ controls = NewControls(TRUE, TRUE, TRUE)
    /\ mapView = NewMapView("Planar", MinZoomLevel, 0, FALSE)
    /\ listeners = BoundListeners
    /\ trace = NoTrace
    /\ steps = 0
    /\ m_dataFilter = NoFilter
    /\ given = NoFilter

\* Process with scale, top and left kept from the call noted earlier, if any.
ProcessKeepsBasis(t, k, g) ==
    /\ pc' = "process"
    /\ tile' = t
    /\ tileKey' = k
    /\ geoBox' = g
    /\ basis' = IF memo = NoMemo
                THEN [scale |-> ScaleOf(k), top |-> TopOf(k, g), left |-> LeftOf(k, g)]
                ELSE [scale |-> ScaleOf(memo[1].tileKey),
                      top |-> TopOf(memo[1].tileKey, memo[1].geoBox),
                      left |-> LeftOf(memo[1].tileKey, memo[1].geoBox)]
    /\ featureIdx' = 0
    /\ env' = NoEnv
    /\ calls' = <<>>
    /\ UNCHANGED <<data, returned, elsewhere>>

\* process(tile, tileKey, geoBox) up to its loop (lines 99-106); a call starts
\* when the adapter is idle (see Next).
Process(t, k, g) ==
    /\ pc' = "process"
    /\ tile' = t
    /\ tileKey' = k
    /\ geoBox' = g
    /\ basis' = [scale |-> ScaleOf(k), top |-> TopOf(k, g), left |-> LeftOf(k, g)]
    /\ featureIdx' = 0
    /\ env' = NoEnv
    /\ calls' = <<>>
    /\ UNCHANGED <<data, returned, elsewhere>>

\* CurrentIndex of a loop that runs from the last feature to the first.
CurrentIndexBackwards == Len(tile.features) - featureIdx

\* for (const feature of tile.features): the index (from 1) of the feature the
\* loop is at, and that feature.
CurrentIndex == featureIdx + 1
CurrentFeature == tile.features[CurrentIndex]

InLoop == pc = "process" /\ featureIdx < Len(tile.features)

\* const env = new MapEnv(...) of the iteration (lines 109-114).
CurrentEnv == MakeEnv(CurrentFeature, tile, tileKey)

\* One iteration of the loop: the environment is built, then the case of the
\* feature's type makes the calls cs.
Iteration(cs) ==
    /\ env' = CurrentEnv
    /\ calls' = calls \o cs
    /\ featureIdx' = featureIdx + 1
    /\ UNCHANGED <<pc, tile, tileKey, geoBox, basis, data, returned, elsewhere>>

\* case VTJsonGeometryType.Point (lines 117-136)
ProcessPoint ==
    /\ InLoop
    /\ CurrentFeature.type = Point
    /\ Iteration(PointCalls(CurrentFeature, CurrentEnv, tile.layer,
                            tileKey.level, basis, CurrentIndex))

\* case VTJsonGeometryType.LineString (lines 137-152)
ProcessLineString ==
    /\ InLoop
    /\ CurrentFeature.type = LineString
    /\ Iteration(LineCalls(CurrentFeature, CurrentEnv, tile.layer,
                           tileKey.level, basis, CurrentIndex))

\* ProcessPolygon of an adapter that asks its filter, if it holds one, whether
\* the feature is wanted, and makes no call for a feature that is not.
ProcessPolygonFiltered ==
    /\ InLoop
    /\ CurrentFeature.type = Polygon
    /\ env' = CurrentEnv
    /\ calls' = calls \o (IF m_dataFilter # NoFilter /\ m_dataFilter[1].wants = "nothing"
                          THEN <<>>
                          ELSE PolygonCalls(CurrentFeature, CurrentEnv, tile.layer,
                                            tileKey.level, basis, CurrentIndex))
    /\ featureIdx' = featureIdx + 1
    /\ m_dataFilter' = IF m_dataFilter = NoFilter THEN NoFilter
                       ELSE <<[m_dataFilter[1] EXCEPT !.asked = 1]>>
    /\ UNCHANGED <<pc, tile, tileKey, geoBox, basis, data, returned, memo, heap, last,
                   controls, mapView, listeners, trace, steps, given>>

\* case VTJsonGeometryType.Polygon (lines 153-212)
ProcessPolygon ==
    /\ InLoop
    /\ CurrentFeature.type = Polygon
    /\ Iteration(PolygonCalls(CurrentFeature, CurrentEnv, tile.layer,
                              tileKey.level, basis, CurrentIndex))

\* ProcessUnknown with return for break: the loop ends at the feature.
ProcessUnknownReturns ==
    /\ InLoop
    /\ CurrentFeature.type = Unknown
    /\ env' = CurrentEnv
    /\ featureIdx' = Len(tile.features)
    /\ UNCHANGED <<pc, tile, tileKey, geoBox, basis, calls, data, returned, elsewhere>>

\* case VTJsonGeometryType.Unknown (lines 213-215)
ProcessUnknown ==
    /\ InLoop
    /\ CurrentFeature.type = Unknown
    /\ Iteration(<<>>)

\* A type no case of the switch matches (lines 116-216).
ProcessNoCase ==
    /\ InLoop
    /\ CurrentFeature.type \notin {Unknown, Point, LineString, Polygon}
    /\ Iteration(<<>>)

\* process returns once the loop is over (line 218); the adapter has kept nothing.
ProcessReturn ==
    /\ pc = "process"
    /\ featureIdx = Len(tile.features)
    /\ pc' = "idle"
    /\ tile' = NoTile
    /\ tileKey' = NoTileKey
    /\ geoBox' = NoGeoBox
    /\ basis' = NoBasis
    /\ featureIdx' = 0
    /\ env' = NoEnv
    /\ calls' = <<>>
    /\ UNCHANGED <<data, returned, elsewhere>>

\* canProcess(data) (lines 80-97); a call starts when the adapter is idle.
CanProcess(d) ==
    /\ pc' = "canProcess"
    /\ data' = d
    /\ returned' = canProcess(d)
    /\ UNCHANGED <<tile, tileKey, geoBox, basis, featureIdx, env, calls, elsewhere>>

CanProcessReturn ==
    /\ pc = "canProcess"
    /\ pc' = "idle"
    /\ data' = Buffer
    /\ returned' = FALSE
    /\ UNCHANGED <<tile, tileKey, geoBox, basis, featureIdx, env, calls, elsewhere>>

\* A call of process on a tile of one feature: a LineString or Polygon whose
\* geometry is any sequence of at most MaxVerts coordinate pairs cut in any way
\* into at most MaxRings rings, a Point with any such sequence, the square
\* ring, a polygon with a hole reaching into the tile buffer, or a feature
\* without geometry of type Unknown or of no type.
CallProcessOne ==
    /\ pc = "idle"
    /\ \E k \in TileKeys, tags \in TagSets :
         LET One(f) == Process(Tile(<<f>>, "water"), k, GeoBoxOf(k))
         IN  \/ \E n \in 0..MaxVerts : \E lens \in Cuts(n) :
                  \E flat \in [1..n -> Positions], type \in {LineString, Polygon} :
                     One(Feature(type, Split(flat, lens), tags))
             \/ \E n \in 0..MaxVerts : \E flat \in [1..n -> Positions] :
                  One(Feature(Point, flat, tags))
             \/ One(Feature(Polygon, <<SquareRing>>, tags))
             \/ \E ring \in BufferRings :
                  One(Feature(Polygon, <<<<<<7, 7>>>>, ring>>, tags))
             \/ One(Feature(Unknown, <<>>, tags))
             \/ One(Feature(4, <<>>, tags))

\* A call of process on a tile of up to MaxFeatures sample features.
CallProcessSamples ==
    /\ pc = "idle"
    /\ \E k \in TileKeys, fs \in BoundedSeq(SampleFeatures, MaxFeatures) :
         Process(Tile(fs, "water"), k, GeoBoxOf(k))

\* A call of canProcess.
CallCanProcess ==
    /\ pc = "idle"
    /\ \E d \in Datas : CanProcess(d)

Next ==
    \/ CallProcessOne
    \/ CallProcessSamples
    \/ ProcessPoint
    \/ ProcessLineString
    \/ ProcessPolygon
    \/ ProcessUnknown
    \/ ProcessNoCase
    \/ ProcessReturn
    \/ CallCanProcess
    \/ CanProcessReturn

Spec == Init /\ [][Next]_vars

(***************************************************************************)
(* What the claims speak of, stated on the inputs of process and on the    *)
(* calls the geometry processor received.                                  *)
(***************************************************************************)
\* The features the loop of process has handled so far.
Handled == IF pc = "process" THEN 1..featureIdx ELSE {}

\* The calls made for the feature at index i, in the order they were made.
CallsOf(i) == SelectSeq(calls, LAMBDA c : c.feature = i)

\* The tile-local bounding box of a ring is exactly (0, 0, extent, extent).
SpansTile(ring) ==
    /\ \E k \in DOMAIN ring : ring[k][1] = 0
    /\ \E k \in DOMAIN ring : ring[k][2] = 0
    /\ \E k \in DOMAIN ring : ring[k][1] = extent
    /\ \E k \in DOMAIN ring : ring[k][2] = extent
    /\ \A k \in DOMAIN ring :
          ring[k][1] >= 0 /\ ring[k][1] <= extent /\ ring[k][2] >= 0 /\ ring[k][2] <= extent

\* A ring after the first spans the tile (the first ring is at index 1 here).
HasSpanningHole(geometry) ==
    \E r \in DOMAIN geometry : r >= 2 /\ SpansTile(geometry[r])

\* The world position of a tile-local pair in the tile of tileKey: the tile's
\* column and row give its left and top edge in tile-local units.
WorldOf(xy) ==
    [x |-> (tileKey.column * extent + xy[1]) * Pow2(MaxLevel - tileKey.level),
     y |-> (tileKey.row * extent + xy[2]) * Pow2(MaxLevel - tileKey.level),
     z |-> 0]

\* C1: a Polygon feature with a ring after the first whose bounding box is
\* exactly (0, 0, 4096, 4096) is discarded: no call at all is made for it,
\* whatever rings come before or after that ring.
C1_SpanningHoleDiscards ==
    \A i \in Handled :
        (tile.features[i].type = Polygon /\ HasSpanningHole(tile.features[i].geometry))
            => CallsOf(i) = <<>>

\* A polygon of three rings whose second ring spans the tile, after a first
\* ring that has vertices, has been handled.
C1_Witness ==
    \E i \in Handled :
        /\ tile.features[i].type = Polygon
        /\ Len(tile.features[i].geometry) = 3
        /\ tile.features[i].geometry[1] # <<>>
        /\ SpansTile(tile.features[i].geometry[2])

\* The calls made for the feature at index i that are calls of fn.
CallsTo(fn, i) == SelectSeq(calls, LAMBDA c : c.feature = i /\ c.fn = fn)

\* C2: the first ring of a Polygon feature never causes the discard: a polygon
\* whose first ring has the bounding box (0, 0, 4096, 4096) and that has no
\* spanning ring after it (so one whose only ring spans the tile) is emitted
\* with exactly one processPolygonFeature call.
C2_FirstRingExempt ==
    \A i \in Handled :
        (/\ tile.features[i].type = Polygon
         /\ Len(tile.features[i].geometry) >= 1
         /\ SpansTile(tile.features[i].geometry[1])
         /\ ~ HasSpanningHole(tile.features[i].geometry))
            => Len(CallsTo("processPolygonFeature", i)) = 1

\* A polygon whose only ring spans the tile has been handled.
C2_Witness ==
    \E i \in Handled :
        /\ tile.features[i].type = Polygon
        /\ Len(tile.features[i].geometry) = 1
        /\ SpansTile(tile.features[i].geometry[1])

\* Vertex k and the vertex after it (the first one after the last) lie on the
\* same border of the tile.
OnBorder(ring, k) ==
    LET curr == ring[k]
        next == ring[IF k = Len(ring) THEN 1 ELSE k + 1]
    IN  \/ (curr[1] = 0 /\ next[1] = 0)
        \/ (curr[1] = extent /\ next[1] = extent)
        \/ (curr[2] = 0 /\ next[2] = 0)
        \/ (curr[2] = extent /\ next[2] = extent)

\* C3: for every ring emitted and every vertex index, the outline flag is
\* false if and only if the vertex and its successor (cyclically) both have
\* x = 0, or both x = 4096, or both y = 0, or both y = 4096; the square ring
\* (0,0),(4096,0),(4096,4096),(0,4096) gets four false flags.
C3_OutlineFlags ==
    \A c \in DOMAIN calls :
        calls[c].fn = "processPolygonFeature" =>
            \A p \in DOMAIN calls[c].geometry :
                \A r \in DOMAIN calls[c].geometry[p].rings :
                    LET in == tile.features[calls[c].feature].geometry[r]
                        out == calls[c].geometry[p].rings[r]
                    IN  /\ DOMAIN out.outlines = DOMAIN in
                        /\ \A k \in DOMAIN in : out.outlines[k] = ~ OnBorder(in, k)
                        /\ in = SquareRing => out.outlines = <<FALSE, FALSE, FALSE, FALSE>>

\* The square ring has been emitted with its four flags false.
C3_Witness ==
    \E c \in DOMAIN calls :
        /\ calls[c].fn = "processPolygonFeature"
        /\ tile.features[calls[c].feature].geometry = <<SquareRing>>
        /\ calls[c].geometry[1].rings[1].outlines = <<FALSE, FALSE, FALSE, FALSE>>

\* C4: for every Polygon feature that is not discarded, exactly one call is
\* made, a processPolygonFeature call with a single polygon; its rings are the
\* feature's input rings, all of them and in input order.
C4_PolygonEmittedOnce ==
    \A i \in Handled :
        (tile.features[i].type = Polygon /\ ~ HasSpanningHole(tile.features[i].geometry))
            => LET in == tile.features[i].geometry
               IN  /\ Len(CallsOf(i)) = 1
                   /\ CallsOf(i)[1].fn = "processPolygonFeature"
                   /\ Len(CallsOf(i)[1].geometry) = 1
                   /\ DOMAIN CallsOf(i)[1].geometry[1].rings = DOMAIN in
                   /\ \A r \in DOMAIN in :
                        CallsOf(i)[1].geometry[1].rings[r].positions
                            = [k \in DOMAIN in[r] |-> WorldOf(in[r][k])]

\* A polygon of three rings, the first two distinct and with vertices, has been
\* emitted.
C4_Witness ==
    \E i \in Handled :
        /\ tile.features[i].type = Polygon
        /\ Len(tile.features[i].geometry) = 3
        /\ tile.features[i].geometry[1] # <<>>
        /\ tile.features[i].geometry[2] # <<>>
        /\ tile.features[i].geometry[1] # tile.features[i].geometry[2]
        /\ Len(CallsOf(i)) = 1

\* C5: for a Point feature with n coordinate pairs (n >= 0), exactly n calls
\* are made, all of them processPointFeature calls, in coordinate order, each
\* with exactly one position.
C5_OneCallPerPoint ==
    \A i \in Handled :
        tile.features[i].type = Point
            => LET in == tile.features[i].geometry
               IN  /\ DOMAIN CallsOf(i) = DOMAIN in
                   /\ \A k \in DOMAIN in :
                        /\ CallsOf(i)[k].fn = "processPointFeature"
                        /\ CallsOf(i)[k].geometry = <<WorldOf(in[k])>>

\* A Point feature with three coordinate pairs, not all the same, has been
\* handled.
C5_Witness ==
    \E i \in Handled :
        /\ tile.features[i].type = Point
        /\ Len(tile.features[i].geometry) = 3
        /\ tile.features[i].geometry[1] # tile.features[i].geometry[2]
        /\ Len(CallsOf(i)) = 3

\* C6: for a LineString feature with m sub-paths, exactly m calls are made,
\* all of them processLineFeature calls, in sub-path order; each carries one
\* line whose positions are as many as the sub-path's pairs, in their order.
C6_OneCallPerSubPath ==
    \A i \in Handled :
        tile.features[i].type = LineString
            => LET in == tile.features[i].geometry
               IN  /\ DOMAIN CallsOf(i) = DOMAIN in
                   /\ \A k \in DOMAIN in :
                        /\ CallsOf(i)[k].fn = "processLineFeature"
                        /\ Len(CallsOf(i)[k].geometry) = 1
                        /\ CallsOf(i)[k].geometry[1].positions
                              = [j \in DOMAIN in[k] |-> WorldOf(in[k][j])]

\* A LineString feature with two distinct sub-paths, the first of two distinct
\* pairs, has been handled.
C6_Witness ==
    \E i \in Handled :
        /\ tile.features[i].type = LineString
        /\ Len(tile.features[i].geometry) = 2
        /\ Len(tile.features[i].geometry[1]) = 2
        /\ tile.features[i].geometry[1][1] # tile.features[i].geometry[1][2]
        /\ tile.features[i].geometry[2] # <<>>
        /\ Len(CallsOf(i)) = 2

\* The calls made for the feature at index i, reduced to the function called
\* and the geometry passed.
Observed(i) ==
    [k \in DOMAIN CallsOf(i) |->
        [fn |-> CallsOf(i)[k].fn, geometry |-> CallsOf(i)[k].geometry]]

\* The world positions of a sequence of tile-local pairs.
WorldOfAll(path) == [k \in DOMAIN path |-> WorldOf(path[k])]

\* The calls the feature at index i is to cause by itself: one per pair of a
\* Point, one per sub-path of a LineString, one for a Polygon without a
\* spanning ring after the first, none otherwise.
Expected(i) ==
    LET in == tile.features[i].geometry
    IN  CASE tile.features[i].type = Point ->
               [k \in DOMAIN in |->
                   [fn |-> "processPointFeature", geometry |-> <<WorldOf(in[k])>>]]
          [] tile.features[i].type = LineString ->
               [k \in DOMAIN in |->
                   [fn |-> "processLineFeature",
                    geometry |-> <<[positions |-> WorldOfAll(in[k])]>>]]
          [] tile.features[i].type = Polygon ->
               IF HasSpanningHole(in) THEN <<>>
               ELSE <<[fn |-> "processPolygonFeature",
                       geometry |->
                          <<[rings |->
                               [r \in DOMAIN in |->
                                   [positions |-> WorldOfAll(in[r]),
                                    outlines |->
                                       [k \in DOMAIN in[r] |-> ~ OnBorder(in[r], k)]]]]>>]>>
          [] OTHER -> <<>>

\* C7: a feature of type Unknown causes no call of processPointFeature,
\* processLineFeature or processPolygonFeature, the loop of process goes on
\* after it, and the features after it get their calls.
C7_UnknownSkipped ==
    \A i \in Handled :
        tile.features[i].type = Unknown
            => /\ CallsOf(i) = <<>>
               /\ \A j \in Handled : j > i => Observed(j) = Expected(j)

\* A feature of type Unknown and, after it, a feature with calls have been
\* handled.
C7_Witness ==
    \E i \in Handled :
        /\ tile.features[i].type = Unknown
        /\ \E j \in Handled : j > i /\ CallsOf(j) # <<>>

\* C8: canProcess returns false for a raw binary buffer, false when one of
\* features, source, x, y, z is undefined, and true for every other input.
C8_CanProcess ==
    pc = "canProcess"
        => returned = (/\ data # Buffer
                       /\ \A f \in {"features", "source", "x", "y", "z"} :
                             data.fields[f] # "undefined")

\* canProcess has returned true for an object whose field layer is undefined.
C8_Witness ==
    /\ pc = "canProcess"
    /\ returned
    /\ data.fields["layer"] = "undefined"

\* The names of the synthesized keys of the environment.
SynthesizedKeys == {"$layer", "$level", "$geometryType"}

\* The environment e holds every tag of the feature f and the synthesized
\* keys, with the synthesized values for these.
EnvOf(e, f) ==
    /\ DOMAIN e = (DOMAIN f.tags) \cup SynthesizedKeys
    /\ \A k \in (DOMAIN f.tags) \ SynthesizedKeys : e[k] = f.tags[k]
    /\ e["$layer"] = tile.layer
    /\ e["$level"] = tileKey.level
    /\ e["$geometryType"] =
          (IF f.type = Point THEN "point"
           ELSE IF f.type = LineString THEN "line"
           ELSE IF f.type = Polygon THEN "polygon"
           ELSE "unknown")

\* C9: the environment built for a feature, and passed with each of its calls,
\* holds every tag of the feature and $layer = tile.layer, $level =
\* tileKey.level, $geometryType = "point", "line", "polygon" or, for any other
\* type, "unknown"; a tag named like a synthesized key yields to it.
C9_Environment ==
    /\ \A c \in DOMAIN calls : EnvOf(calls[c].env, tile.features[calls[c].feature])
    /\ (pc = "process" /\ featureIdx >= 1) => EnvOf(env, tile.features[featureIdx])

\* A call has been made for a feature whose tags bear the synthesized names, and
\* the environment of a feature of no known type has been built.
C9_Witness ==
    /\ pc = "process"
    /\ \E c \in DOMAIN calls : tile.features[calls[c].feature].tags = ShadowTags
    /\ featureIdx >= 1
    /\ tile.features[featureIdx].type \notin {Point, LineString, Polygon}
    /\ env["$geometryType"] = "unknown"

\* C10: process handles the features in input order: every call made for a
\* feature comes before every call made for a later feature, and the calls made
\* for a feature are those it causes by itself, whatever discarded or Unknown
\* features the tile holds besides.
C10_InputOrder ==
    /\ \A a, b \in DOMAIN calls : a < b => calls[a].feature <= calls[b].feature
    /\ \A c \in DOMAIN calls : calls[c].feature \in Handled
    /\ \A i \in Handled : Observed(i) = Expected(i)

\* Three features have been handled: one with calls, then a discarded polygon
\* or a feature of type Unknown, then one with calls.
C10_Witness ==
    /\ pc = "process"
    /\ featureIdx = 3
    /\ CallsOf(1) # <<>>
    /\ CallsOf(2) = <<>>
    /\ tile.features[2].type \in {Polygon, Unknown}
    /\ CallsOf(3) # <<>>

(***************************************************************************)
(* The transform of process, from its arguments.                           *)
(***************************************************************************)
\* scale, left and top as the documentation of process states them, from
\* the arguments tileKey and geoBox of the call.
TransformBasis ==
    [scale |-> Pow2(tileKey.level + 12),
     left |-> ((geoBox.west + Deg180) * Pow2(tileKey.level + 12)) \div Deg360,
     top |-> lat2tile(geoBox.north, tileKey.level + 12)]

\* The transform of a tile-local pair with them.
Transform(xy, b) ==
    [x |-> ((b.left + xy[1]) * EQUATORIAL_CIRCUMFERENCE) \div b.scale,
     y |-> ((b.top + xy[2]) * EQUATORIAL_CIRCUMFERENCE) \div b.scale,
     z |-> 0]

\* The positions of every call made for the feature at index i, call by call
\* (for a polygon: ring by ring).
EmittedPaths(i) ==
    CASE tile.features[i].type = Point ->
           [k \in DOMAIN CallsOf(i) |-> CallsOf(i)[k].geometry]
      [] tile.features[i].type = LineString ->
           [k \in DOMAIN CallsOf(i) |-> CallsOf(i)[k].geometry[1].positions]
      [] tile.features[i].type = Polygon /\ CallsOf(i) # <<>> ->
           [r \in DOMAIN CallsOf(i)[1].geometry[1].rings |->
               CallsOf(i)[1].geometry[1].rings[r].positions]
      [] OTHER -> <<>>

\* The coordinate pairs of the feature at index i in the same arrangement.
InputPaths(i) ==
    CASE tile.features[i].type = Point ->
           [k \in DOMAIN tile.features[i].geometry |-> <<tile.features[i].geometry[k]>>]
      [] tile.features[i].type \in {LineString, Polygon} -> tile.features[i].geometry
      [] OTHER -> <<>>

\* C11: for every geometry type the k-th position emitted is the transform of
\* the k-th input coordinate pair: world.x = ((left + x) / scale) * R,
\* world.y = ((top + y) / scale) * R and z = 0, with scale = 2^(level + 12),
\* left = ((west + 180) / 360) * scale and top = lat2tile(north, level + 12),
\* and scale, top and left are those of the arguments during the whole call.
C11_Transform ==
    LET b == TransformBasis
    IN  /\ pc = "process" => basis = b
        /\ \A i \in Handled :
              LET emitted == EmittedPaths(i)
                  input == InputPaths(i)
              IN  \A p \in DOMAIN emitted :
                     /\ p \in DOMAIN input
                     /\ DOMAIN emitted[p] = DOMAIN input[p]
                     /\ \A k \in DOMAIN emitted[p] :
                           emitted[p][k] = Transform(input[p][k], b)

\* A tile away from the origin at the deepest level has had a point, a line
\* of two positions and a ring of three positions emitted.
C11_Witness ==
    /\ pc = "process"
    /\ tileKey.level = MaxLevel
    /\ tileKey.column > 0 /\ tileKey.row > 0
    /\ \E i \in Handled :
          tile.features[i].type = Point /\ EmittedPaths(i) # <<>>
    /\ \E i \in Handled :
          /\ tile.features[i].type = LineString
          /\ \E p \in DOMAIN EmittedPaths(i) : Len(EmittedPaths(i)[p]) = 2
    /\ \E i \in Handled :
          /\ tile.features[i].type = Polygon
          /\ \E p \in DOMAIN EmittedPaths(i) : Len(EmittedPaths(i)[p]) >= 3

(***************************************************************************)
(* process called again and again: a caller notes the calls a finished     *)
(* call of process has made, and calls process and canProcess further.     *)
(***************************************************************************)
\* The four tiles of level 1, each next to two others, and a tile of the
\* deepest level.
RepeatKeys ==
    {TileKey(1, column, row) : column \in 0..1, row \in 0..1} \union TileKeys

\* Points on the four corners of the tile.
CornerPoints == Feature(Point, SquareRing, NoTags)

\* The tiles of the repeated calls: the empty tile and a tile for each sample
\* feature.
RepeatTiles ==
    {Tile(<<>>, "water")}
        \union {Tile(<<f>>, "water") : f \in SampleFeatures \union {CornerPoints}}

CallProcessAgain ==
    /\ pc = "idle"
    /\ \E k \in RepeatKeys, t \in RepeatTiles : Process(t, k, GeoBoxOf(k))

\* The caller notes the arguments and the calls of the call of process that is
\* about to return.
Note ==
    /\ pc = "process"
    /\ featureIdx = Len(tile.features)
    /\ memo' = <<[tile |-> tile, tileKey |-> tileKey, geoBox |-> geoBox,
                  calls |-> calls]>>
    /\ memo' # memo
    /\ UNCHANGED <<pc, tile, tileKey, geoBox, basis, featureIdx, env, calls, data,
                   returned, heap, last, controls, mapView, listeners, trace, steps,
                   m_dataFilter, given>>

NextRepeat ==
    \/ CallProcessAgain
    \/ ProcessPoint
    \/ ProcessLineString
    \/ ProcessPolygon
    \/ ProcessUnknown
    \/ ProcessNoCase
    \/ Note
    \/ ProcessReturn
    \/ CallCanProcess
    \/ CanProcessReturn

SpecRepeat == Init /\ [][NextRepeat]_vars

\* The calls cs made for the feature at index i.
CallsIn(cs, i) == SelectSeq(cs, LAMBDA c : c.feature = i)

\* The pairs of an input coordinate pair of tile t and the position emitted
\* for it in the calls cs of process on t.
EmittedFor(t, cs) ==
    LET In(i) == t.features[i].geometry
        Out(i) == CallsIn(cs, i)
        Of(i) ==
            CASE t.features[i].type = Point ->
                   {[in |-> In(i)[k], out |-> Out(i)[k].geometry[1]] :
                        k \in DOMAIN Out(i)}
              [] t.features[i].type = LineString ->
                   UNION {{[in |-> In(i)[p][k],
                            out |-> Out(i)[p].geometry[1].positions[k]] :
                               k \in DOMAIN In(i)[p]} : p \in DOMAIN Out(i)}
              [] t.features[i].type = Polygon /\ Out(i) # <<>> ->
                   UNION {{[in |-> In(i)[p][k],
                            out |-> Out(i)[1].geometry[1].rings[p].positions[k]] :
                               k \in DOMAIN In(i)[p]} : p \in DOMAIN In(i)}
              [] OTHER -> {}
    IN  UNION {Of(i) : i \in DOMAIN t.features}

\* The noted call was on the tile of the same level right to the west
\* (dc = 1, dr = 0) or right to the north (dc = 0, dr = 1) of the tile of the
\* call in progress.
NotedNeighbour(dc, dr) ==
    /\ memo # NoMemo
    /\ pc = "process"
    /\ memo[1].tileKey.level = tileKey.level
    /\ memo[1].tileKey.column + dc = tileKey.column
    /\ memo[1].tileKey.row + dr = tileKey.row

\* C12: tiles next to each other at one level give a point of their shared
\* border the same world position: x = 4096 in the western tile and x = 0 in
\* the eastern one at the same y, and y = 4096 in the northern tile and y = 0
\* in the southern one at the same x.
C12_SharedBorder ==
    /\ NotedNeighbour(1, 0) =>
          \A a \in EmittedFor(memo[1].tile, memo[1].calls), b \in EmittedFor(tile, calls) :
             (a.in[1] = 4096 /\ b.in[1] = 0 /\ a.in[2] = b.in[2]) => a.out = b.out
    /\ NotedNeighbour(0, 1) =>
          \A a \in EmittedFor(memo[1].tile, memo[1].calls), b \in EmittedFor(tile, calls) :
             (a.in[2] = 4096 /\ b.in[2] = 0 /\ a.in[1] = b.in[1]) => a.out = b.out

\* Both tiles have a point on the shared meridian emitted, away from the
\* world's western edge.
C12_Witness ==
    /\ NotedNeighbour(1, 0)
    /\ \E a \in EmittedFor(memo[1].tile, memo[1].calls), b \in EmittedFor(tile, calls) :
          a.in[1] = 4096 /\ b.in[1] = 0 /\ a.in[2] = b.in[2] /\ a.out.x > 0

\* The same on the shared parallel.
SharedParallelReached ==
    /\ NotedNeighbour(0, 1)
    /\ \E a \in EmittedFor(memo[1].tile, memo[1].calls), b \in EmittedFor(tile, calls) :
          a.in[2] = 4096 /\ b.in[2] = 0 /\ a.in[1] = b.in[1] /\ a.out.y > 0

\* The calls noted for the features the loop has handled so far.
NotedSoFar == SelectSeq(memo[1].calls, LAMBDA c : c.feature <= featureIdx)

\* process is called with the arguments of the call noted.
SameArguments ==
    /\ memo # NoMemo
    /\ pc = "process"
    /\ memo[1].tile = tile
    /\ memo[1].tileKey = tileKey
    /\ memo[1].geoBox = geoBox

\* C15: the decoder keeps nothing between calls of process: a call with the
\* tile, tileKey and geoBox of an earlier call makes the same calls in the
\* same order, whatever calls of process and canProcess came in between, and
\* process leaves tile, tileKey and geoBox as they were passed.
C15_Stateless ==
    /\ [](SameArguments => calls = NotedSoFar)
    /\ [][(pc = "process" /\ pc' = "process") =>
             (tile' = tile /\ tileKey' = tileKey /\ geoBox' = geoBox)]_vars

\* A call with the arguments of the call noted has made its calls again, on a
\* tile that causes calls.
C15_Witness ==
    /\ SameArguments
    /\ featureIdx = Len(tile.features)
    /\ calls # <<>>

(***************************************************************************)
(* Empty geometry.                                                         *)
(***************************************************************************)
\* The feature at index i has been emitted as one polygon with a ring for
\* each of its rings, the empty ones without positions and outline flags.
EmittedWithEmptyRings(i) ==
    /\ Len(CallsOf(i)) = 1
    /\ CallsOf(i)[1].fn = "processPolygonFeature"
    /\ Len(CallsOf(i)[1].geometry) = 1
    /\ DOMAIN CallsOf(i)[1].geometry[1].rings = DOMAIN tile.features[i].geometry
    /\ \A r \in DOMAIN tile.features[i].geometry :
          tile.features[i].geometry[r] = <<>> =>
             CallsOf(i)[1].geometry[1].rings[r] = [positions |-> <<>>, outlines |-> <<>>]

HasEmptyRing(i) == \E r \in DOMAIN tile.features[i].geometry : tile.features[i].geometry[r] = <<>>

\* Every empty sub-path of the LineString at index i has been emitted, at its
\* place, as a line without positions.
EmptySubPathsEmitted(i) ==
    /\ DOMAIN CallsOf(i) = DOMAIN tile.features[i].geometry
    /\ \A p \in DOMAIN tile.features[i].geometry :
          tile.features[i].geometry[p] = <<>> =>
             /\ CallsOf(i)[p].fn = "processLineFeature"
             /\ CallsOf(i)[p].geometry = <<[positions |-> <<>>]>>

\* C16 as stated: a Polygon feature with an empty ring at any index is
\* emitted with that ring carrying no positions and no outline flags, a Polygon
\* feature without rings is emitted as a polygon without rings, and an empty
\* sub-path of a LineString is emitted as a line without positions.
C16_EmptyAlwaysEmitted ==
    \A i \in Handled :
       /\ (tile.features[i].type = Polygon /\ HasEmptyRing(i)) => EmittedWithEmptyRings(i)
       /\ (tile.features[i].type = Polygon /\ tile.features[i].geometry = <<>>) =>
             EmittedWithEmptyRings(i)
       /\ tile.features[i].type = LineString => EmptySubPathsEmitted(i)

\* C16, amended: a Polygon feature with an empty ring at any index and
\* without a ring after the first that spans the tile is emitted with the
\* empty ring carrying no positions and no outline flags (with such a spanning
\* ring the feature is discarded, empty ring or not); a Polygon feature without
\* rings is emitted as a polygon without rings, and an empty sub-path of a
\* LineString is emitted as a line without positions.
C16_EmptyPassedThrough ==
    \A i \in Handled :
       /\ (tile.features[i].type = Polygon /\ HasEmptyRing(i)) =>
             IF HasSpanningHole(tile.features[i].geometry)
             THEN CallsOf(i) = <<>>
             ELSE EmittedWithEmptyRings(i)
       /\ (tile.features[i].type = Polygon /\ tile.features[i].geometry = <<>>) =>
             EmittedWithEmptyRings(i)
       /\ tile.features[i].type = LineString => EmptySubPathsEmitted(i)

\* A polygon whose second of three rings is empty has been emitted.
C16_Witness ==
    \E i \in Handled :
       /\ tile.features[i].type = Polygon
       /\ Len(tile.features[i].geometry) = 3
       /\ tile.features[i].geometry[1] # <<>>
       /\ tile.features[i].geometry[2] = <<>>
       /\ tile.features[i].geometry[3] # <<>>
       /\ EmittedWithEmptyRings(i)

\* Rings r - 1 and r of the geometry, both after the first ring, together have
\* the bounding box (0, 0, extent, extent).
PairSpansTile(geometry, r) ==
    r >= 3 /\ r <= Len(geometry) /\ SpansTile(geometry[r - 1] \o geometry[r])

\* The rings after the first, taken together, have the bounding box
\* (0, 0, extent, extent).
UnionSpansTile(geometry) ==
    Len(geometry) >= 2 /\ SpansTile(JoinedRings(geometry, 2, Len(geometry)))

\* The single processPolygonFeature call made for feature i carries as many
\* rings as the feature has.
EmittedWithAllRings(i) ==
    /\ Len(CallsOf(i)) = 1
    /\ CallsOf(i)[1].fn = "processPolygonFeature"
    /\ Len(CallsOf(i)[1].geometry) = 1
    /\ Len(CallsOf(i)[1].geometry[1].rings) = Len(tile.features[i].geometry)

\* C29 as stated: the vertices of the ring before take part in the check made
\* for a ring after the first, so a polygon in which a ring and the ring
\* before it (both after the first) together span the tile is discarded.
C29_PreviousRingTakesPart ==
    \A i \in Handled :
        (/\ tile.features[i].type = Polygon
         /\ \E r \in DOMAIN tile.features[i].geometry :
               PairSpansTile(tile.features[i].geometry, r))
            => CallsOf(i) = <<>>

\* C29: the check made for a ring after the first evaluates the bounding box of
\* that ring's own vertices only; the vertices of the ring before take no
\* part, so a polygon in which a ring and the ring before it together span the
\* tile, but no ring after the first does alone, is emitted with all its rings.
C29_OwnRingOnly ==
    \A i \in Handled :
        (/\ tile.features[i].type = Polygon
         /\ \E r \in DOMAIN tile.features[i].geometry :
               PairSpansTile(tile.features[i].geometry, r)
         /\ ~ HasSpanningHole(tile.features[i].geometry))
            => EmittedWithAllRings(i)

\* A polygon whose second and third ring together span the tile, neither
\* alone, has been emitted.
C29_Witness ==
    \E i \in Handled :
        /\ tile.features[i].type = Polygon
        /\ PairSpansTile(tile.features[i].geometry, 3)
        /\ ~ HasSpanningHole(tile.features[i].geometry)
        /\ EmittedWithAllRings(i)

\* C30: the bounding box tested after a ring is built from that ring's
\* vertices only: a Polygon feature is discarded exactly when one single ring
\* after the first spans the tile, and is emitted otherwise, in particular
\* when only the union of its rings after the first spans the tile.
C30_OncePerRing ==
    \A i \in Handled :
        tile.features[i].type = Polygon =>
            /\ (CallsOf(i) = <<>>) = HasSpanningHole(tile.features[i].geometry)
            /\ (UnionSpansTile(tile.features[i].geometry)
                  /\ ~ HasSpanningHole(tile.features[i].geometry))
                   => Len(CallsTo("processPolygonFeature", i)) = 1

\* A polygon whose rings after the first span the tile only in union has been
\* handled and a processPolygonFeature call was made for it.
C30_Witness ==
    \E i \in Handled :
        /\ tile.features[i].type = Polygon
        /\ UnionSpansTile(tile.features[i].geometry)
        /\ ~ HasSpanningHole(tile.features[i].geometry)
        /\ Len(CallsTo("processPolygonFeature", i)) = 1

\* C31: every ring passed to processPolygonFeature has as many outline flags
\* as positions, as many as the input ring at its index has vertices; a call
\* carries all the rings of its feature, and no call is made for a feature
\* with a ring after the first that spans the tile.
C31_RingsWhole ==
    \A c \in DOMAIN calls :
        calls[c].fn = "processPolygonFeature" =>
            LET in == tile.features[calls[c].feature].geometry
            IN  /\ ~ HasSpanningHole(in)
                /\ \A p \in DOMAIN calls[c].geometry :
                      /\ Len(calls[c].geometry[p].rings) = Len(in)
                      /\ \A r \in DOMAIN calls[c].geometry[p].rings :
                            /\ Len(calls[c].geometry[p].rings[r].outlines)
                                  = Len(calls[c].geometry[p].rings[r].positions)
                            /\ Len(calls[c].geometry[p].rings[r].positions) = Len(in[r])

\* A polygon of two rings, of two vertices and of one, has been passed to
\* processPolygonFeature.
C31_Witness ==
    \E c \in DOMAIN calls :
        /\ calls[c].fn = "processPolygonFeature"
        /\ Len(tile.features[calls[c].feature].geometry) = 2
        /\ Len(calls[c].geometry[1].rings[1].outlines) = 2
        /\ Len(calls[c].geometry[1].rings[2].positions) = 1

(***************************************************************************)
(* The adapter and its filter: the adapter is constructed with a filter or *)
(* without, the filter is set between calls of process, and process is     *)
(* called on tiles of one feature.                                         *)
(***************************************************************************)
\* get dataFilter()
dataFilter == m_dataFilter

\* set dataFilter(dataFilter)
SetDataFilter ==
    /\ pc = "idle"
    /\ \E filter \in Filters \ {m_dataFilter} :
          /\ m_dataFilter' = filter
          /\ given' = filter
    /\ UNCHANGED <<pc, tile, tileKey, geoBox, basis, featureIdx, env, calls, data,
                   returned, memo, heap, last, controls, mapView, listeners, trace,
                   steps>>

\* new VTJsonDataAdapter(processor, dataFilter)
InitFilter ==
    /\ pc = "idle"
    /\ tile = NoTile
    /\ tileKey = NoTileKey
    /\ geoBox = NoGeoBox
    /\ basis = NoBasis
    /\ featureIdx = 0
    /\ env = NoEnv
    /\ calls = <<>>
    /\ data = Buffer
    /\ returned = FALSE
    /\ memo = NoMemo
    /\ heap = NoHeap
    /\ last = NoCall
    /\ controls = NewControls(TRUE, TRUE, TRUE)
    /\ mapView = NewMapView("Planar", MinZoomLevel, 0, FALSE)
    /\ listeners = BoundListeners
    /\ trace = NoTrace
    /\ steps = 0
    /\ \E filter \in Filters :
          /\ m_dataFilter = filter
          /\ given = filter

NextFilter ==
    \/ SetDataFilter
    \/ CallProcessAgain
    \/ ProcessPoint
    \/ ProcessLineString
    \/ ProcessPolygon
    \/ ProcessUnknown
    \/ ProcessNoCase
    \/ ProcessReturn

SpecFilter == InitFilter /\ [][NextFilter]_vars

\* The calls process makes for the feature at index i of its tile, as the
\* feature, the tile and the tile key alone determine them.
UnfilteredCalls(i) ==
    LET feature == tile.features[i]
        e == MakeEnv(feature, tile, tileKey)
        b == [scale |-> ScaleOf(tileKey), top |-> TopOf(tileKey, geoBox),
              left |-> LeftOf(tileKey, geoBox)]
    IN  CASE feature.type = Point ->
                 PointCalls(feature, e, tile.layer, tileKey.level, b, i)
          [] feature.type = LineString ->
                 LineCalls(feature, e, tile.layer, tileKey.level, b, i)
          [] feature.type = Polygon ->
                 PolygonCalls(feature, e, tile.layer, tileKey.level, b, i)
          [] OTHER -> <<>>

\* C37: the getter dataFilter gives the filter last given to the constructor
\* or to the setter, never asked and not changed by process; and the calls
\* process has made for the features it has handled are those the tile and the
\* tile key determine, whatever filter the adapter holds.
C37_FilterUnused ==
    /\ dataFilter = given
    /\ \A i \in Handled : CallsOf(i) = UnfilteredCalls(i)

\* An adapter that was given a filter that wants nothing by its setter has
\* passed a polygon to the processor.
C37_Witness ==
    /\ given # NoFilter
    /\ given[1].wants = "nothing"
    /\ \E i \in Handled :
          /\ tile.features[i].type = Polygon
          /\ CallsOf(i) # <<>>

(***************************************************************************)
(*                          IdentityProjection                             *)
(*                                                                         *)
(* Numbers are exact integers.  Longitudes and latitudes are whole         *)
(* degrees; x and y of a world point count half degrees' worth of radians  *)
(* (units of pi / 360), so that pi / 180 is 2 and the centre of a box is a *)
(* whole number.  Altitudes and z are multiples of 4 of a unit in which    *)
(* Number.EPSILON, smaller than any half difference of two altitudes, is   *)
(* 1.  An optional number is a sequence of length 0 or 1.  The rounding of *)
(* floating-point arithmetic is not modelled.                              *)
(***************************************************************************)
\* const DEG2RAD = Math.PI / 180;
DEG2RAD == 2
\* Number.EPSILON
Number_EPSILON == 1

Undefined == "undefined"

\* new GeoCoordinates(latitude, longitude, altitude): altitude is optional.
GeoCoordinates(latitude, longitude, altitude) ==
    [latitude |-> latitude, longitude |-> longitude, altitude |-> altitude]

\* GeoCoordinates.fromRadians(latitude, longitude, altitude): the angles are
\* converted from radians to degrees, the altitude is taken as it is.
fromRadians(latitude, longitude, altitude) ==
    GeoCoordinates(latitude \div DEG2RAD, longitude \div DEG2RAD, <<altitude>>)

\* geoPoint.altitude || 0
AltitudeOrZero(altitude) == IF altitude = <<>> THEN 0 ELSE altitude[1]

\* projectPoint onto the ground: z is 0 whatever the altitude.
projectPointFlat(geoPoint) ==
    Vector(geoPoint.longitude * DEG2RAD, geoPoint.latitude * DEG2RAD, 0)

\* projectPoint(geoPoint, result): the values written to result (lines 50-52)
projectPoint(geoPoint) ==
    Vector(geoPoint.longitude * DEG2RAD, geoPoint.latitude * DEG2RAD,
           AltitudeOrZero(geoPoint.altitude))

\* unprojectPoint with x taken for the latitude and y for the longitude.
unprojectPointXY(worldPoint) ==
    fromRadians(worldPoint.x, worldPoint.y, worldPoint.z)

\* unprojectPoint(worldPoint) (lines 56-59)
unprojectPoint(worldPoint) ==
    fromRadians(worldPoint.y, worldPoint.x, worldPoint.z)

\* unprojectAltitude(worldPoint) (lines 61-63)
unprojectAltitude(worldPoint) == worldPoint.z

\* groundDistance(worldPoint) (lines 105-107)
groundDistance(worldPoint) == worldPoint.z

\* A result object for projectBox: of the shape of Box3Like, of the shape of
\* OrientedBox3Like, or of neither.
Box3(min, max) == [kind |-> "Box3", min |-> min, max |-> max]
OrientedBox3(xAxis, yAxis, zAxis, position, extents) ==
    [kind |-> "OrientedBox3", xAxis |-> xAxis, yAxis |-> yAxis, zAxis |-> zAxis,
     position |-> position, extents |-> extents]
OtherObject == [kind |-> "Other"]
\* No result object is passed.
NoResult == [kind |-> "undefined"]
\* MathUtils.newEmptyBox3(), whose corners projectBox overwrites at once
newEmptyBox3 == Box3(Vector(0, 0, 0), Vector(0, 0, 0))
newOrientedBox3 ==
    OrientedBox3(Vector(0, 0, 0), Vector(0, 0, 0), Vector(0, 0, 0),
                 Vector(0, 0, 0), Vector(0, 0, 0))
isBox3Like(result) == result.kind = "Box3"
isOrientedBox3Like(result) == result.kind = "OrientedBox3"

\* projectBox with extents.z the half difference of the altitudes as it is.
projectBoxThin(box, result) ==
    LET worldSouthWest ==
            projectPoint(GeoCoordinates(box.south, box.west, box.minAltitude))
        worldNorthEast ==
            projectPoint(GeoCoordinates(box.north, box.east, box.maxAltitude))
        res == IF result = NoResult THEN newEmptyBox3 ELSE result
    IN  IF isBox3Like(res) THEN Box3(worldSouthWest, worldNorthEast)
        ELSE IF isOrientedBox3Like(res)
        THEN OrientedBox3(
               Vector(1, 0, 0), Vector(0, 1, 0), Vector(0, 0, 1),
               Vector((worldSouthWest.x + worldNorthEast.x) \div 2,
                      (worldSouthWest.y + worldNorthEast.y) \div 2,
                      (worldSouthWest.z + worldNorthEast.z) \div 2),
               Vector((worldNorthEast.x - worldSouthWest.x) \div 2,
                      (worldNorthEast.y - worldSouthWest.y) \div 2,
                      (worldNorthEast.z - worldSouthWest.z) \div 2))
        ELSE res

\* projectBox(geoBox, result) (lines 65-97): the object returned.  The sums
\* and differences halved are even.
projectBox(box, result) ==
    LET worldSouthWest ==
            projectPoint(GeoCoordinates(box.south, box.west, box.minAltitude))
        worldNorthEast ==
            projectPoint(GeoCoordinates(box.north, box.east, box.maxAltitude))
        res == IF result = NoResult THEN newEmptyBox3 ELSE result
    IN  IF isBox3Like(res) THEN Box3(worldSouthWest, worldNorthEast)
        ELSE IF isOrientedBox3Like(res)
        THEN OrientedBox3(
               Vector(1, 0, 0), Vector(0, 1, 0), Vector(0, 0, 1),
               Vector((worldSouthWest.x + worldNorthEast.x) \div 2,
                      (worldSouthWest.y + worldNorthEast.y) \div 2,
                      (worldSouthWest.z + worldNorthEast.z) \div 2),
               Vector((worldNorthEast.x - worldSouthWest.x) \div 2,
                      (worldNorthEast.y - worldSouthWest.y) \div 2,
                      Max(Number_EPSILON, (worldNorthEast.z - worldSouthWest.z) \div 2)))
        ELSE res

\* The inputs: geo points inside the ranges of longitude and latitude, with
\* and without altitude, and boxes of two of them, also with the altitudes in
\* reverse order and with corners that coincide.
LatLons == {<<-89, -179>>, <<45, 90>>}
Altitudes == {<<>>, <<0>>, <<4>>, <<-8>>}
GeoPoints ==
    {GeoCoordinates(c[1], c[2], alt) : c \in LatLons, alt \in Altitudes}
GeoBox(southWest, northEast) ==
    [south |-> southWest.latitude, west |-> southWest.longitude,
     north |-> northEast.latitude, east |-> northEast.longitude,
     minAltitude |-> southWest.altitude, maxAltitude |-> northEast.altitude]
GeoBoxes ==
    {GeoBox(GeoCoordinates(-89, -179, min), GeoCoordinates(c[1], c[2], max)) :
        c \in LatLons, min \in Altitudes, max \in Altitudes}
BoxResults == {NoResult, newEmptyBox3, newOrientedBox3, OtherObject}

\* A vector the caller holds, and the geo point it is the projection of if
\* projectPoint wrote it and nothing has written to it since.
Held(v, from) == [v |-> v, from |-> from]

\* A call of the projection: its name, its arguments, the heap it found and
\* what it returned (the slot of a vector, or a value).
CallOf(fn, args, ret) == <<[fn |-> fn, args |-> args, before |-> heap, ret |-> ret]>>

\* The slot written when result is passed, or when it is not and an object is
\* created, which takes the place of the object created before.
Target(result) == IF result = Undefined THEN "fresh" ELSE result

\* projectPoint(geoPoint, result) (lines 42-54)
ProjectPoint(geoPoint, result) ==
    /\ heap' = [heap EXCEPT ![Target(result)] =
                    Held(projectPoint(geoPoint), <<geoPoint>>)]
    /\ last' = CallOf("projectPoint", <<geoPoint, result>>, Target(result))

UnprojectPoint(worldPoint) ==
    /\ last' = CallOf("unprojectPoint", <<worldPoint>>, unprojectPoint(heap[worldPoint].v))
    /\ UNCHANGED heap

UnprojectAltitude(worldPoint) ==
    /\ last' = CallOf("unprojectAltitude", <<worldPoint>>,
                      unprojectAltitude(heap[worldPoint].v))
    /\ UNCHANGED heap

GroundDistance(worldPoint) ==
    /\ last' = CallOf("groundDistance", <<worldPoint>>, groundDistance(heap[worldPoint].v))
    /\ UNCHANGED heap

ProjectBox(box, result) ==
    /\ last' = CallOf("projectBox", <<box, result>>, projectBox(box, result))
    /\ UNCHANGED heap

\* ScalePointToSurface returning a copy on the ground and leaving worldPoint.
ScalePointToSurfaceCopy(worldPoint) ==
    /\ heap' = [heap EXCEPT !["fresh"] =
                    Held([heap[worldPoint].v EXCEPT !.z = 0], <<>>)]
    /\ last' = CallOf("scalePointToSurface", <<worldPoint>>, "fresh")

\* scalePointToSurface(worldPoint) (lines 109-112)
ScalePointToSurface(worldPoint) ==
    /\ heap' = [heap EXCEPT ![worldPoint] =
                    Held([heap[worldPoint].v EXCEPT !.z = 0], <<>>)]
    /\ last' = CallOf("scalePointToSurface", <<worldPoint>>, worldPoint)

\* SurfaceNormal creating its result whether a normal is passed or not.
SurfaceNormalCreates(worldPoint, normal) ==
    /\ heap' = [heap EXCEPT !["fresh"] = Held(Vector(0, 0, 1), <<>>)]
    /\ last' = CallOf("surfaceNormal", <<worldPoint, normal>>, "fresh")

\* surfaceNormal(worldPoint, normal) (lines 114-123)
SurfaceNormal(worldPoint, normal) ==
    /\ heap' = [heap EXCEPT ![Target(normal)] = Held(Vector(0, 0, 1), <<>>)]
    /\ last' = CallOf("surfaceNormal", <<worldPoint, normal>>, Target(normal))

\* The calls a caller makes.  A vector passed is one the caller holds; the
\* object a call creates when no normal is passed is not one of them.
CallProjectPoint ==
    \E g \in GeoPoints, result \in Slots \union {Undefined} : ProjectPoint(g, result)
CallUnprojectPoint == \E worldPoint \in Slots : UnprojectPoint(worldPoint)
CallUnprojectAltitude == \E worldPoint \in Slots : UnprojectAltitude(worldPoint)
CallGroundDistance == \E worldPoint \in Slots : GroundDistance(worldPoint)
CallProjectBox == \E b \in GeoBoxes, result \in BoxResults : ProjectBox(b, result)
CallScalePointToSurface == \E worldPoint \in Slots : ScalePointToSurface(worldPoint)
CallSurfaceNormal ==
    \E worldPoint \in Slots, normal \in Slots \union {Undefined} :
       /\ normal = Undefined => worldPoint # "fresh"
       /\ SurfaceNormal(worldPoint, normal)

\* The adapter is left alone.
AdapterIdle ==
    UNCHANGED <<pc, tile, tileKey, geoBox, basis, featureIdx, env, calls, data,
                returned, memo, controls, mapView, listeners, trace, steps,
                m_dataFilter, given>>

NextProjection ==
    \/ CallProjectPoint /\ AdapterIdle
    \/ CallUnprojectPoint /\ AdapterIdle
    \/ CallUnprojectAltitude /\ AdapterIdle
    \/ CallGroundDistance /\ AdapterIdle
    \/ CallProjectBox /\ AdapterIdle
    \/ CallScalePointToSurface /\ AdapterIdle
    \/ CallSurfaceNormal /\ AdapterIdle

SpecProjection == Init /\ [][NextProjection]_vars

\* The last call of the projection was a call of fn.
Did(fn) == last # NoCall /\ last[1].fn = fn

\* The last call was given a vector that projectPoint wrote from a geo point.
GivenProjected == heap[last[1].args[1]].from # <<>>
ProjectedFrom == heap[last[1].args[1]].from[1]

\* C13 as stated: unprojectPoint(projectPoint(p)) equals p in longitude,
\* latitude and altitude, for every geo point p with a longitude in
\* (-180, 180) and a latitude in (-90, 90).
C13_RoundTripEqual ==
    (Did("unprojectPoint") /\ GivenProjected) => last[1].ret = ProjectedFrom

\* C13, amended: unprojectPoint(projectPoint(p)) has the longitude and the
\* latitude of p, and the altitude of p when p has one and the altitude 0
\* when p has none.
C13_RoundTrip ==
    (Did("unprojectPoint") /\ GivenProjected) =>
        /\ last[1].ret.longitude = ProjectedFrom.longitude
        /\ last[1].ret.latitude = ProjectedFrom.latitude
        /\ last[1].ret.altitude =
              IF ProjectedFrom.altitude = <<>> THEN <<0>> ELSE ProjectedFrom.altitude

\* A point without altitude, with a longitude other than its latitude, has
\* made the round trip.
C13_Witness ==
    /\ Did("unprojectPoint") /\ GivenProjected
    /\ ProjectedFrom.altitude = <<>>
    /\ ProjectedFrom.longitude # ProjectedFrom.latitude
    /\ last[1].ret.altitude = <<0>>

\* C14: projectBox into an oriented box gives, for every geo box, also one
\* with minAltitude = maxAltitude or minAltitude > maxAltitude, extents.z > 0,
\* the midpoint of the two projected corners for centre, and the axes
\* (1,0,0), (0,1,0) and (0,0,1).
C14_OrientedBox ==
    (Did("projectBox") /\ last[1].args[2] = newOrientedBox3) =>
        LET box == last[1].args[1]
            sw == projectPoint(GeoCoordinates(box.south, box.west, box.minAltitude))
            ne == projectPoint(GeoCoordinates(box.north, box.east, box.maxAltitude))
            ret == last[1].ret
        IN  /\ ret.extents.z > 0
            /\ 2 * ret.position.x = sw.x + ne.x
            /\ 2 * ret.position.y = sw.y + ne.y
            /\ 2 * ret.position.z = sw.z + ne.z
            /\ ret.xAxis = Vector(1, 0, 0)
            /\ ret.yAxis = Vector(0, 1, 0)
            /\ ret.zAxis = Vector(0, 0, 1)

\* A box with minAltitude above maxAltitude has been projected into an
\* oriented box.
C14_Witness ==
    /\ Did("projectBox") /\ last[1].args[2] = newOrientedBox3
    /\ last[1].args[1].minAltitude = <<4>>
    /\ last[1].args[1].maxAltitude = <<-8>>
    /\ last[1].args[1].east # last[1].args[1].west
    /\ last[1].ret.extents.z = Number_EPSILON

\* C17: scalePointToSurface sets z of the world point to 0 in place, returns
\* the object it was given and leaves x and y; it is idempotent, and the
\* ground distance of its result is 0.
C17_ScaleToSurface ==
    Did("scalePointToSurface") =>
        LET worldPoint == last[1].args[1]
            before == last[1].before[worldPoint].v
        IN  /\ last[1].ret = worldPoint
            /\ heap[worldPoint].v = Vector(before.x, before.y, 0)
            /\ before.z = 0 => heap[worldPoint].v = before
            /\ groundDistance(heap[last[1].ret].v) = 0

\* A point above the ground has been scaled to the surface.
C17_Witness ==
    /\ Did("scalePointToSurface")
    /\ last[1].before[last[1].args[1]].v.z > 0
    /\ last[1].before[last[1].args[1]].v.x # 0

\* C18 as stated: surfaceNormal returns (0, 0, 1) for every world point, a
\* normal passed is overwritten and returned, and the world point is never
\* modified.
C18_NormalPointKept ==
    Did("surfaceNormal") =>
        LET worldPoint == last[1].args[1]
            normal == last[1].args[2]
        IN  /\ heap[last[1].ret].v = Vector(0, 0, 1)
            /\ normal # Undefined => last[1].ret = normal
            /\ heap[worldPoint] = last[1].before[worldPoint]

\* C18, amended: surfaceNormal returns (0, 0, 1) for every world point, a
\* normal passed is overwritten and returned, and the world point is not
\* modified unless it is itself the object passed as normal.
C18_Normal ==
    Did("surfaceNormal") =>
        LET worldPoint == last[1].args[1]
            normal == last[1].args[2]
        IN  /\ heap[last[1].ret].v = Vector(0, 0, 1)
            /\ normal # Undefined => last[1].ret = normal
            /\ normal # worldPoint => heap[worldPoint] = last[1].before[worldPoint]

\* A normal other than (0, 0, 1) has been passed with a world point that is
\* another object and not the origin.
C18_Witness ==
    /\ Did("surfaceNormal")
    /\ last[1].args[2] # Undefined
    /\ last[1].args[2] # last[1].args[1]
    /\ last[1].before[last[1].args[2]].v # Vector(0, 0, 1)
    /\ last[1].before[last[1].args[1]].v.x # 0

\* C19: unprojectAltitude(projectPoint(g)) and groundDistance(projectPoint(g))
\* are the altitude of g when g has one and 0 when it has none.
C19_Altitude ==
    ((Did("unprojectAltitude") \/ Did("groundDistance")) /\ GivenProjected) =>
        last[1].ret =
            IF ProjectedFrom.altitude = <<>> THEN 0 ELSE ProjectedFrom.altitude[1]

\* The altitude of a point below the ground has been read back.
C19_Witness ==
    /\ Did("unprojectAltitude") /\ GivenProjected
    /\ ProjectedFrom.altitude = <<-8>>
    /\ last[1].ret = -8

(***************************************************************************)
(* MapControls: the functions.  A function of the class is an operator on  *)
(* a record w of what it may read and write: the fields c of the controls, *)
(* the map view m, the listeners l, and what the call has dispatched (d)   *)
(* and done to the camera (e) so far.                                      *)
(***************************************************************************)
World(c, m, l) == [c |-> c, m |-> m, l |-> l, d |-> <<>>, e |-> <<>>]

dispatchEvent(w, event) == [w EXCEPT !.d = Append(@, event)]
Effect(w, effect) == [w EXCEPT !.e = Append(@, effect)]

Without(seq, x) == SelectSeq(seq, LAMBDA y : y # x)
Has(seq, x) == \E i \in 1..Len(seq) : seq[i] = x
\* mapView.addEventListener(AfterRender, listener): a listener is added once.
addAfterRender(w, listener) ==
    IF Has(w.m.afterRender, listener) THEN w
    ELSE [w EXCEPT !.m.afterRender = Append(@, listener)]
removeAfterRender(w, listener) == [w EXCEPT !.m.afterRender = Without(@, listener)]

currentZoom(w) ==
    IF w.c.m_currentZoom # <<>> THEN w.c.m_currentZoom[1] ELSE w.m.zoomLevel
zoomLevelTargeted(w) ==
    IF w.c.m_targetedZoom = <<>> THEN currentZoom(w) ELSE w.c.m_targetedZoom[1]
currentPitch(w) == w.m.pitch
targetedPitch(w) ==
    IF w.c.m_targetedPitch = <<>>
    THEN IF w.c.m_currentPitch = <<>> THEN currentPitch(w) ELSE w.c.m_currentPitch[1]
    ELSE w.c.m_targetedPitch[1]

updateMapView(w) == dispatchEvent(w, "update")

stopZoom(w) ==
    [removeAfterRender(w, "handleZoom") EXCEPT !.c.m_zoomIsAnimated = FALSE]

\* handleZoom without the tests of inertiaEnabled: the zoom is always eased
\* over the frames.
handleZoomEased(w) ==
    LET w1 == IF w.c.m_zoomDeltaRequested # 0
              THEN [w EXCEPT
                      !.c.m_targetedZoom =
                          <<Max(Min(zoomLevelTargeted(w) + w.c.m_zoomDeltaRequested,
                                    w.c.maxZoomLevel),
                                w.c.minZoomLevel)>>,
                      !.c.m_zoomDeltaRequested = 0]
              ELSE w
        w2 == IF w1.c.m_zoomIsAnimated THEN w1
              ELSE [addAfterRender(w1, "handleZoom") EXCEPT !.c.m_zoomIsAnimated = TRUE]
        zoomFinished == w2.c.sinceZoomAnimationStart > zoomInertiaDampingDuration
        m_zoomAnimationTime ==
            IF zoomFinished /\ w2.c.m_needsRenderLastFrame
            THEN zoomInertiaDampingDuration
            ELSE w2.c.sinceZoomAnimationStart
        w4 == IF zoomFinished
              THEN IF w2.c.m_needsRenderLastFrame
                   THEN stopZoom([w2 EXCEPT !.c.m_needsRenderLastFrame = FALSE])
                   ELSE w2
              ELSE [w2 EXCEPT !.c.m_needsRenderLastFrame = TRUE]
        zoom == IF Abs(zoomLevelTargeted(w4) - w4.c.m_startZoom) < EPSILON
                THEN zoomLevelTargeted(w4)
                ELSE easeOutCubic(w4.c.m_startZoom, zoomLevelTargeted(w4),
                                  m_zoomAnimationTime, zoomInertiaDampingDuration)
        w6 == [w4 EXCEPT !.c.m_currentZoom = <<zoom>>, !.m.zoomLevel = zoom]
    IN  updateMapView(w6)

handleZoom(w) ==
    LET w1 == IF w.c.m_zoomDeltaRequested # 0
              THEN [w EXCEPT
                      !.c.m_targetedZoom =
                          <<Max(Min(zoomLevelTargeted(w) + w.c.m_zoomDeltaRequested,
                                    w.c.maxZoomLevel),
                                w.c.minZoomLevel)>>,
                      !.c.m_zoomDeltaRequested = 0]
              ELSE w
        w2 == IF w1.c.m_zoomIsAnimated THEN w1
              ELSE [addAfterRender(w1, "handleZoom") EXCEPT !.c.m_zoomIsAnimated = TRUE]
        zoomFinished == w2.c.sinceZoomAnimationStart > zoomInertiaDampingDuration
        m_zoomAnimationTime ==
            IF zoomFinished /\ w2.c.m_needsRenderLastFrame
            THEN zoomInertiaDampingDuration
            ELSE w2.c.sinceZoomAnimationStart
        w4 == IF zoomFinished
              THEN IF w2.c.m_needsRenderLastFrame
                   THEN stopZoom([w2 EXCEPT !.c.m_needsRenderLastFrame = FALSE])
                   ELSE w2
              ELSE [w2 EXCEPT !.c.m_needsRenderLastFrame = TRUE]
        w5 == IF w1.c.inertiaEnabled THEN w4 ELSE w1
        zoom == IF ~w5.c.inertiaEnabled
                     \/ Abs(zoomLevelTargeted(w5) - w5.c.m_startZoom) < EPSILON
                THEN zoomLevelTargeted(w5)
                ELSE easeOutCubic(w5.c.m_startZoom, zoomLevelTargeted(w5),
                                  m_zoomAnimationTime, zoomInertiaDampingDuration)
        \* MapViewUtils.zoomOnTargetPosition
        w6 == [w5 EXCEPT !.c.m_currentZoom = <<zoom>>, !.m.zoomLevel = zoom]
    IN  updateMapView(w6)

\* setZoomLevel without the test of enabled.
setZoomLevelWhateverEnabled(w, zoomLevel, screenTarget) ==
    LET w1 == dispatchEvent(w, "begin-interaction")
        w2 == [w1 EXCEPT
                 !.c.m_startZoom = currentZoom(w1),
                 !.c.m_zoomDeltaRequested = zoomLevel - zoomLevelTargeted(w1),
                 !.c.m_panDistanceFrameDelta = <<0, 0>>,
                 !.c.m_lastAveragedPanDistance = 0,
                 !.c.sinceZoomAnimationStart = 0]
        w3 == IF w2.m.projection = "Planar"
              THEN handleZoom([w2 EXCEPT
                                 !.c.m_zoomTargetNormalizedCoordinates = screenTarget])
              ELSE updateMapView(
                       Effect(w2, <<"camera.position.addScaledVector",
                                    zoomLevelTargeted(w2) - zoomLevel>>))
    IN  dispatchEvent(w3, "end-interaction")

setZoomLevel(w, zoomLevel, screenTarget) ==
    IF w.c.enabled = FALSE THEN w
    ELSE
    LET w1 == dispatchEvent(w, "begin-interaction")
        w2 == [w1 EXCEPT
                 !.c.m_startZoom = currentZoom(w1),
                 !.c.m_zoomDeltaRequested = zoomLevel - zoomLevelTargeted(w1),
                 !.c.m_panDistanceFrameDelta = <<0, 0>>,
                 !.c.m_lastAveragedPanDistance = 0,
                 !.c.sinceZoomAnimationStart = 0]
        w3 == IF w2.m.projection = "Planar"
              THEN handleZoom([w2 EXCEPT
                                 !.c.m_zoomTargetNormalizedCoordinates = screenTarget])
              ELSE updateMapView(
                       Effect(w2, <<"camera.position.addScaledVector",
                                    zoomLevelTargeted(w2) - zoomLevel>>))
    IN  dispatchEvent(w3, "end-interaction")

\* mouseWheel adding the delta to the current zoom level, the interpolated
\* one while the zoom is animated.
mouseWheelFromCurrent(w, deltaY, offset) ==
    setZoomLevel(w,
                 currentZoom(w)
                     + zoomLevelDeltaOnMouseWheel * (IF deltaY > 0 THEN 0 - 1 ELSE 1),
                 offset)

mouseWheel(w, deltaY, offset) ==
    setZoomLevel(w,
                 zoomLevelTargeted(w)
                     + zoomLevelDeltaOnMouseWheel * (IF deltaY > 0 THEN 0 - 1 ELSE 1),
                 offset)

\* constrainPitchAngle without the clamp.
constrainPitchAngleUnclamped(w, pitchAngle, deltaPitch) ==
    IF w.c.tiltEnabled THEN pitchAngle + deltaPitch ELSE pitchAngle

\* constrainPitchAngle without the test of tiltEnabled.
constrainPitchAngleWhateverTilt(w, pitchAngle, deltaPitch) ==
    clamp(pitchAngle + deltaPitch, w.c.m_minPitchAngle, w.c.m_maxPitchAngle)

constrainPitchAngle(w, pitchAngle, deltaPitch) ==
    LET tmpPitchAngle ==
            clamp(pitchAngle + deltaPitch, w.c.m_minPitchAngle, w.c.m_maxPitchAngle)
    IN  IF w.c.tiltEnabled
            /\ tmpPitchAngle <= w.c.m_maxPitchAngle
            /\ tmpPitchAngle >= w.c.m_minPitchAngle
        THEN tmpPitchAngle
        ELSE pitchAngle

\* deltaYaw and deltaPitch are in degrees.  The yaw is not kept: what is
\* subtracted from it is noted, and so is the pitch given to the camera.
rotate(w, deltaYaw, deltaPitch) ==
    LET w1 == IF w.c.inertiaEnabled /\ w.c.m_zoomIsAnimated THEN stopZoom(w) ELSE w
        w2 == IF w1.c.rotateEnabled
              THEN Effect(w1, <<"yaw", degToRad(deltaYaw)>>)
              ELSE w1
        pitchAngle == constrainPitchAngle(w2, w2.m.pitch, degToRad(deltaPitch))
    IN  [Effect(w2, <<"pitch", pitchAngle>>) EXCEPT !.m.pitch = pitchAngle]

\* A camera below minCameraHeight is not tilted further; the camera of the
\* model is otherwise high enough for no delta to be halved.
getMinDelta(w, deltaAltitude) ==
    IF w.m.belowMinHeight /\ deltaAltitude > 0 THEN 0 ELSE deltaAltitude

\* The ray through the centre of the screen meets the ground before and
\* after the rotation.
orbitFocusPoint(w, deltaAzimuth, deltaAltitude) ==
    IF w.m.projection = "Spherical" THEN w
    ELSE
    LET w1 == IF w.c.inertiaEnabled /\ w.c.m_zoomIsAnimated THEN stopZoom(w) ELSE w
        w2 == rotate(w1, deltaAzimuth, getMinDelta(w1, deltaAltitude))
    IN  Effect(Effect(w2, <<"camera.position.z">>), <<"MapViewUtils.pan", "focusPoint">>)

moveAlongTheViewDirection(w, amount) ==
    updateMapView(Effect(w, <<"camera.position.z", amount>>))

stopTilt(w) ==
    [removeAfterRender(w, "tilt") EXCEPT
       !.c.m_tiltIsAnimated = FALSE,
       !.c.m_targetedPitch = <<>>,
       !.c.m_currentPitch = <<>>]

\* The getter maxPitchAngle gives degrees.
tilt(w) ==
    LET w1 == IF w.c.m_pitchRequested # <<>>
              THEN [w EXCEPT
                      !.c.m_targetedPitch =
                          <<Max(Min(w.c.m_pitchRequested[1], radToDeg(w.c.m_maxPitchAngle)),
                                w.c.m_minPitchAngle)>>,
                      !.c.m_pitchRequested = <<>>]
              ELSE w
        w2 == IF w1.c.m_tiltIsAnimated THEN w1
              ELSE [addAfterRender(w1, "tilt") EXCEPT !.c.m_tiltIsAnimated = TRUE]
        tiltFinished == w2.c.sinceTiltAnimationStart > tiltToggleDuration
        m_tiltAnimationTime ==
            IF tiltFinished /\ w2.c.m_needsRenderLastFrame
            THEN tiltToggleDuration
            ELSE w2.c.sinceTiltAnimationStart
        w4 == IF tiltFinished
              THEN IF w2.c.m_needsRenderLastFrame
                   THEN stopTilt([w2 EXCEPT !.c.m_needsRenderLastFrame = FALSE])
                   ELSE w2
              ELSE [w2 EXCEPT !.c.m_needsRenderLastFrame = TRUE]
        w5 == IF w1.c.inertiaEnabled THEN w4 ELSE w1
        pitch == IF w5.c.inertiaEnabled
                 THEN easeOutCubic(w5.c.m_startPitch, targetedPitch(w5),
                                   m_tiltAnimationTime, tiltToggleDuration)
                 ELSE targetedPitch(w5)
        w6 == [w5 EXCEPT !.c.m_currentPitch = <<pitch>>]
        deltaAngle == pitch - currentPitch(w6)
        \* newHeight - camera.position.z is 0: both are taken at the pitch of
        \* the camera.
    IN  updateMapView(orbitFocusPoint(w6, 0, radToDeg(deltaAngle)))

toggleTilt(w) ==
    LET aimTilt == currentPitch(w) < EPSILON \/ w.c.m_tiltState = <<"Down">>
    IN  tilt([w EXCEPT
                !.c.m_startPitch = currentPitch(w),
                !.c.m_pitchRequested = <<IF aimTilt THEN w.c.tiltAngle ELSE 0>>,
                !.c.m_tiltState = <<IF aimTilt THEN "Tilted" ELSE "Down">>,
                !.c.sinceTiltAnimationStart = 0])

pan(w) ==
    IF w.c.m_state = "NONE" /\ w.c.m_lastAveragedPanDistance = 0 THEN w
    ELSE
    LET w1 == IF w.c.inertiaEnabled /\ ~w.c.m_panIsAnimated
              THEN [addAfterRender(w, "pan") EXCEPT !.c.m_panIsAnimated = TRUE]
              ELSE w
        applyInertia ==
            w1.c.inertiaEnabled /\ w1.c.m_state = "NONE"
                /\ w1.c.m_lastAveragedPanDistance > 0
        \* with inertia
        panFinished == w1.c.sincePanAnimationStart > panInertiaDampingDuration
        m_panAnimationTime ==
            IF panFinished /\ w1.c.m_needsRenderLastFrame
            THEN panInertiaDampingDuration
            ELSE w1.c.sincePanAnimationStart
        a2 == IF panFinished
              THEN IF w1.c.m_needsRenderLastFrame
                   THEN [removeAfterRender(w1, "pan") EXCEPT
                           !.c.m_needsRenderLastFrame = FALSE,
                           !.c.m_panIsAnimated = FALSE]
                   ELSE w1
              ELSE [w1 EXCEPT !.c.m_needsRenderLastFrame = TRUE]
        m_currentInertialPanningSpeed ==
            easeOutCubic(a2.c.m_lastAveragedPanDistance, 0,
                         m_panAnimationTime, panInertiaDampingDuration)
        a3 == [a2 EXCEPT
                 !.c.m_lastAveragedPanDistance =
                     IF m_currentInertialPanningSpeed = 0 THEN 0 ELSE @,
                 !.c.m_panDistanceFrameDelta =
                     VecSetLength(a2.c.m_lastPanVector, m_currentInertialPanningSpeed)]
        \* without
        index == (w1.c.m_currentPanDistanceIndex + 1) % USER_INPUTS_TO_CONSIDER
        recent == [w1.c.m_recentPanDistances EXCEPT
                     ![index + 1] = VecLength(w1.c.m_panDistanceFrameDelta)]
        b1 == [w1 EXCEPT
                 !.c.m_lastPanVector = w1.c.m_panDistanceFrameDelta,
                 !.c.m_currentPanDistanceIndex = index,
                 !.c.m_recentPanDistances = recent,
                 !.c.m_lastAveragedPanDistance = Sum(recent) \div USER_INPUTS_TO_CONSIDER]
        w2 == IF applyInertia THEN a3 ELSE b1
        w3 == Effect(w2, <<"MapViewUtils.pan", w2.c.m_panDistanceFrameDelta>>)
        w4 == IF applyInertia THEN w3 ELSE [w3 EXCEPT !.c.m_panDistanceFrameDelta = <<0, 0>>]
    IN  updateMapView(w4)

\* The map view has no elevation provider.  The mouse stays on points of
\* the screen whose rays meet the ground, so that neither ray gives
\* undefined or null.
\* panFromTo without the call of stopZoom.
panFromToKeepsZoom(w, from, to) ==
    LET fromWorld == rayCastWorldCoordinates(from)
        toWorld == rayCastWorldCoordinates(to)
    IN  IF toWorld = <<Undefined>> \/ fromWorld = <<Undefined>> THEN w
        ELSE IF w.m.projection = "Planar"
        THEN pan([w EXCEPT
                    !.c.sincePanAnimationStart = 0,
                    !.c.m_panDistanceFrameDelta = VecSub(fromWorld, toWorld)])
        ELSE Effect(w, <<"camera.applyMatrix", from, to>>)

panFromTo(w, from, to) ==
    LET fromWorld == rayCastWorldCoordinates(from)
        toWorld == rayCastWorldCoordinates(to)
    IN  IF toWorld = <<Undefined>> \/ fromWorld = <<Undefined>> THEN w
        ELSE IF w.m.projection = "Planar"
        THEN pan([stopZoom(w) EXCEPT
                    !.c.sincePanAnimationStart = 0,
                    !.c.m_panDistanceFrameDelta = VecSub(fromWorld, toWorld)])
        ELSE Effect(w, <<"camera.applyMatrix", from, to>>)

(***************************************************************************)
(* MapControls: the handlers of input events.  A mouse event is given by   *)
(* its button, whether shift or ctrl is held, and its point; a touch event *)
(* by the points of its touches.                                           *)
(***************************************************************************)
WindowListeners == {<<"window", "mousemove">>, <<"window", "mouseup">>}

\* mouseDown without the test of the interaction state.
mouseDownInAnyState(w, button, modifier, point) ==
    IF w.c.enabled = FALSE THEN w
    ELSE IF modifier THEN w
    ELSE IF ~(button \in {0, 1} \/ (button = 2 /\ w.c.tiltEnabled)) THEN w
    ELSE
    LET state == CASE button = 0 -> "PAN" [] button = 1 -> "ROTATE" [] OTHER -> "ORBIT"
        w1 == dispatchEvent([w EXCEPT !.c.m_state = state], "begin-interaction")
    IN  [w1 EXCEPT
           !.c.m_lastMousePosition = point,
           !.l = @ \cup WindowListeners,
           !.c.m_cleanupMouseEventListeners = TRUE]

mouseDown(w, button, modifier, point) ==
    IF w.c.enabled = FALSE THEN w
    ELSE IF modifier THEN w
    ELSE IF w.c.m_state # "NONE" THEN w
    ELSE IF ~(button \in {0, 1} \/ (button = 2 /\ w.c.tiltEnabled)) THEN w
    ELSE
    LET state == CASE button = 0 -> "PAN" [] button = 1 -> "ROTATE" [] OTHER -> "ORBIT"
        w1 == dispatchEvent([w EXCEPT !.c.m_state = state], "begin-interaction")
    IN  [w1 EXCEPT
           !.c.m_lastMousePosition = point,
           !.l = @ \cup WindowListeners,
           !.c.m_cleanupMouseEventListeners = TRUE]

mouseMove(w, point) ==
    IF w.c.enabled = FALSE THEN w
    ELSE
    LET m_mouseDelta == VecSub(point, w.c.m_lastMousePosition)
        w2 == CASE w.c.m_state = "PAN" ->
                      panFromTo(w, w.c.m_lastMousePosition, point)
                [] w.c.m_state = "ROTATE" ->
                      rotate(w, (0 - rotationMouseDeltaFactor) * m_mouseDelta[1],
                             rotationMouseDeltaFactor * m_mouseDelta[2])
                [] w.c.m_state = "ORBIT" ->
                      orbitFocusPoint(w, orbitingMouseDeltaFactor * m_mouseDelta[1],
                                      (0 - orbitingMouseDeltaFactor) * m_mouseDelta[2])
                [] OTHER -> w
    IN  updateMapView([w2 EXCEPT
                         !.c.m_lastMousePosition = point,
                         !.c.sinceZoomAnimationStart = 0])

mouseUp(w) ==
    IF w.c.enabled = FALSE THEN w
    ELSE
    LET w1 == [updateMapView(w) EXCEPT !.c.m_state = "NONE"]
        w2 == IF w1.c.m_cleanupMouseEventListeners
              THEN [w1 EXCEPT !.l = @ \ WindowListeners]
              ELSE w1
    IN  dispatchEvent(w2, "end-interaction")

calculateAngleFromTouchPointsInWorldspace(touches) ==
    IF Len(touches) < 2 THEN 0
    ELSE atan2(touches[2].currentWorldPosition[2] - touches[1].currentWorldPosition[2],
               touches[2].currentWorldPosition[1] - touches[1].currentWorldPosition[1])

calculatePinchDistanceInWorldSpace(touches) ==
    IF Len(touches) < 2 THEN 0
    ELSE VecLength(VecSub(touches[1].currentWorldPosition, touches[2].currentWorldPosition))
           - VecLength(VecSub(touches[1].initialWorldPosition,
                              touches[2].initialWorldPosition))

\* Null when the ray through the touch misses the ground.
convertTouchPoint(touch) ==
    IF rayCastWorldCoordinates(touch) = Null THEN Null
    ELSE <<[currentTouchPoint |-> touch,
            lastTouchPoint |-> touch,
            currentWorldPosition |-> rayCastWorldCoordinates(touch),
            initialWorldPosition |-> rayCastWorldCoordinates(touch)]>>

RECURSIVE Converted(_)
Converted(touches) ==
    IF touches = <<>> THEN <<>>
    ELSE convertTouchPoint(Head(touches)) \o Converted(Tail(touches))

updateTouchState(w) ==
    [w EXCEPT !.c.m_touchState.currentRotation =
                  calculateAngleFromTouchPointsInWorldspace(w.c.m_touchState.touches)]

setTouchState(w, touches) ==
    LET w1 == [w EXCEPT !.c.m_touchState.touches = Converted(touches)]
        w2 == updateTouchState(w1)
    IN  IF w1.c.m_touchState.touches # <<>>
        THEN [w2 EXCEPT !.c.m_touchState.initialRotation =
                            w2.c.m_touchState.currentRotation]
        ELSE w1

updateTouches(w, touches) ==
    LET old == w.c.m_touchState.touches
        length == Min(Len(touches), Len(old))
    IN  [w EXCEPT !.c.m_touchState.touches =
            [i \in 1..Len(old) |->
                IF i <= length /\ convertTouchPoint(touches[i]) # Null
                THEN [convertTouchPoint(touches[i])[1] EXCEPT
                        !.initialWorldPosition = old[i].initialWorldPosition,
                        !.lastTouchPoint = old[i].currentTouchPoint]
                ELSE old[i]]]

touchStart(w, touches) ==
    IF w.c.enabled = FALSE THEN w
    ELSE setTouchState(dispatchEvent([w EXCEPT !.c.m_state = "TOUCH"],
                                     "begin-interaction"),
                       touches)

\* With no touch kept, the read of touches[0] throws and nothing follows.
touchMove(w, touches) ==
    IF w.c.enabled = FALSE THEN w
    ELSE
    LET w1 == updateTouchState(updateTouches(w, touches))
        kept == w1.c.m_touchState.touches
        w2 == IF Len(kept) <= 2
              THEN pan([w1 EXCEPT
                          !.c.m_panDistanceFrameDelta =
                              VecSub(kept[1].initialWorldPosition,
                                     kept[1].currentWorldPosition),
                          !.c.m_startZoom = currentZoom(w1),
                          !.c.m_targetedZoom = <<currentZoom(w1)>>,
                          !.c.sincePanAnimationStart = 0])
              ELSE w1
        w3 == IF Len(kept) = 2
              THEN moveAlongTheViewDirection(
                       rotate(w2,
                              radToDeg(w2.c.m_touchState.currentRotation
                                         - w2.c.m_touchState.initialRotation),
                              0),
                       calculatePinchDistanceInWorldSpace(kept))
              ELSE w2
        w4 == IF Len(kept) = 3 /\ w3.c.tiltEnabled
              THEN LET diff == VecSub(kept[1].currentTouchPoint, kept[1].lastTouchPoint)
                   IN  orbitFocusPoint(w3, orbitingTouchDeltaFactor * diff[1],
                                       (0 - orbitingTouchDeltaFactor) * diff[2])
              ELSE w3
    IN  IF kept = <<>> THEN Effect(w1, <<"TypeError">>)
        ELSE updateMapView([w4 EXCEPT !.c.sinceZoomAnimationStart = 0])

touchEnd(w, touches) ==
    IF w.c.enabled = FALSE THEN w
    ELSE updateMapView(
             dispatchEvent(setTouchState([w EXCEPT !.c.m_state = "NONE"], touches),
                           "end-interaction"))

\* dispose removes what bindInputEvents added.
dispose(w) == [w EXCEPT !.l = @ \ BoundListeners]

(***************************************************************************)
(* MapControls: what happens to it.  The browser delivers an event to the  *)
(* handler that listens for it, the application calls a public function or *)
(* sets enabled, the map view renders a frame and calls the listeners of   *)
(* AfterRender, and time passes.                                           *)
(***************************************************************************)
\* The controls are followed for MaxSteps steps after their construction.
MaxSteps == 3
Buttons == 0..3
\* tiltEnabled, rotateEnabled and inertiaEnabled as the application sets them
\* after the construction, and the projection of the map view.
Configurations ==
    {<<TRUE, TRUE, TRUE, "Planar">>, <<FALSE, TRUE, TRUE, "Planar">>,
     <<TRUE, FALSE, TRUE, "Planar">>, <<TRUE, TRUE, FALSE, "Planar">>,
     <<TRUE, TRUE, TRUE, "Spherical">>}
TouchLists ==
    {<<>>, <<OffMap>>, <<<<0, 0>>>>, <<<<1, 1>>>>, <<<<0, 0>>, <<1, 1>>>>,
     <<<<1, 1>>, <<0, 0>>>>, <<<<0, 0>>, <<1, 1>>, <<0, 0>>>>}
WheelOffset == <<1, 1>>
\* event.deltaY of a wheel event
WheelDeltas == {0 - 1, 0, 1}
ZoomLevels == (MinZoomLevel - 1)..(MaxZoomLevel + 1)

Now == World(controls, mapView, listeners)

ControlsOnly ==
    UNCHANGED <<pc, tile, tileKey, geoBox, basis, featureIdx, env, calls, data,
                returned, memo, heap, last, m_dataFilter, given>>

Does(call, w) ==
    /\ controls' = w.c
    /\ mapView' = w.m
    /\ listeners' = w.l
    /\ trace' = Trace(call, w.d, w.e)
    /\ steps' = Min(steps + 1, MaxSteps)
    /\ ControlsOnly

Listens(target, type) == <<target, type>> \in listeners

MouseDown ==
    /\ Listens("domElement", "mousedown")
    /\ \E button \in Buttons, modifier \in BOOLEAN, point \in ScreenPoints :
          Does("mouseDown", mouseDown(Now, button, modifier, point))

MouseMove ==
    /\ Listens("window", "mousemove")
    /\ \E point \in ScreenPoints \ {controls.m_lastMousePosition} :
          Does("mouseMove", mouseMove(Now, point))

MouseUp ==
    /\ Listens("window", "mouseup")
    /\ Does("mouseUp", mouseUp(Now))

MouseWheel ==
    /\ Listens("domElement", "wheel")
    /\ \E deltaY \in WheelDeltas : Does("mouseWheel", mouseWheel(Now, deltaY, WheelOffset))

TouchStart ==
    /\ Listens("domElement", "touchstart")
    /\ \E touches \in TouchLists \ {<<>>} : Does("touchStart", touchStart(Now, touches))

TouchMove ==
    /\ Listens("domElement", "touchmove")
    /\ \E touches \in TouchLists \ {<<>>} : Does("touchMove", touchMove(Now, touches))

TouchEnd ==
    /\ Listens("domElement", "touchend")
    /\ \E touches \in TouchLists : Does("touchEnd", touchEnd(Now, touches))

SetZoomLevel ==
    \E zoomLevel \in ZoomLevels : Does("setZoomLevel", setZoomLevel(Now, zoomLevel, <<0, 0>>))

\* Deltas in degrees: one unit of angle either way, and more than the widest
\* range of pitch either way.
Deltas == {0 - 4 * RAD2DEG, 0 - RAD2DEG, RAD2DEG, 4 * RAD2DEG}

Rotate ==
    \E deltaYaw \in {0, RAD2DEG}, deltaPitch \in Deltas :
        Does("rotate", rotate(Now, deltaYaw, deltaPitch))

OrbitFocusPoint ==
    \E deltaAzimuth \in {0, RAD2DEG}, deltaAltitude \in Deltas :
        Does("orbitFocusPoint", orbitFocusPoint(Now, deltaAzimuth, deltaAltitude))

ToggleTilt == Does("toggleTilt", toggleTilt(Now))

SetEnabled ==
    \E enabled \in BOOLEAN :
        Does("enabled", [Now EXCEPT !.c.enabled = enabled])

Dispose == Does("dispose", dispose(Now))

\* The application sets inertiaEnabled.
SetInertiaEnabled ==
    \E inertiaEnabled \in BOOLEAN :
        Does("inertiaEnabled", [Now EXCEPT !.c.inertiaEnabled = inertiaEnabled])

\* The listeners of AfterRender, as they were when the frame was rendered,
\* are called in their order.
RECURSIVE Dispatched(_, _)
Dispatched(w, handlers) ==
    IF handlers = <<>> THEN w
    ELSE Dispatched(CASE Head(handlers) = "handleZoom" -> handleZoom(w)
                      [] Head(handlers) = "pan" -> pan(w)
                      [] Head(handlers) = "tilt" -> tilt(w),
                    Tail(handlers))

AfterRender ==
    /\ mapView.afterRender # <<>>
    /\ Does("AfterRender", Dispatched(Now, mapView.afterRender))

\* performance.now() grows by a quarter of a second.
Tick ==
    /\ controls' = [controls EXCEPT
          !.sinceZoomAnimationStart = Min(@ + 1, zoomInertiaDampingDuration + 1),
          !.sincePanAnimationStart = Min(@ + 1, panInertiaDampingDuration + 1),
          !.sinceTiltAnimationStart = Min(@ + 1, tiltToggleDuration + 1)]
    /\ controls' # controls
    /\ trace' = NoTrace
    /\ steps' = Min(steps + 1, MaxSteps)
    /\ UNCHANGED <<mapView, listeners>>
    /\ ControlsOnly

InitControls ==
    /\ pc = "idle"
    /\ tile = NoTile
    /\ tileKey = NoTileKey
    /\ geoBox = NoGeoBox
    /\ basis = NoBasis
    /\ featureIdx = 0
    /\ env = NoEnv
    /\ calls = <<>>
    /\ data = Buffer
    /\ returned = FALSE
    /\ memo = NoMemo
    /\ heap = NoHeap
    /\ last = NoCall
    /\ \E configuration \in Configurations :
          /\ controls = NewControls(configuration[1], configuration[2], configuration[3])
          /\ mapView = NewMapView(configuration[4], MinZoomLevel, 0, FALSE)
    /\ listeners = BoundListeners
    /\ trace = NoTrace
    /\ steps = 0
    /\ m_dataFilter = NoFilter
    /\ given = NoFilter

WithinSteps == steps < MaxSteps

NextControls ==
    \/ WithinSteps /\ MouseDown
    \/ WithinSteps /\ MouseMove
    \/ WithinSteps /\ MouseUp
    \/ WithinSteps /\ MouseWheel
    \/ WithinSteps /\ TouchStart
    \/ WithinSteps /\ TouchMove
    \/ WithinSteps /\ TouchEnd
    \/ WithinSteps /\ SetZoomLevel
    \/ WithinSteps /\ ToggleTilt
    \/ WithinSteps /\ SetEnabled
    \/ WithinSteps /\ Dispose
    \/ WithinSteps /\ AfterRender
    \/ WithinSteps /\ Tick

SpecControls == InitControls /\ [][NextControls]_vars

(***************************************************************************)
(* MapControls and the pitch of the camera: the application sets           *)
(* tiltEnabled, minPitchAngle and maxPitchAngle (in degrees) after the     *)
(* construction; then the mouse, the touches, calls of rotate,             *)
(* orbitFocusPoint and toggleTilt and the frames of the tilt animation     *)
(* turn the camera.                                                        *)
(***************************************************************************)
\* tiltEnabled, minPitchAngle, maxPitchAngle, the projection, the pitch of the
\* camera when the controls are made.
PitchConfigurations ==
    {<<TRUE, 0, 3 * RAD2DEG, "Planar", 0>>,
     <<TRUE, RAD2DEG, 2 * RAD2DEG, "Planar", 0>>,
     <<TRUE, RAD2DEG, 2 * RAD2DEG, "Spherical", 3>>,
     <<TRUE, 2 * RAD2DEG, RAD2DEG, "Planar", 0>>,
     <<FALSE, 0, 3 * RAD2DEG, "Planar", 0>>,
     <<FALSE, RAD2DEG, 2 * RAD2DEG, "Planar", 3>>}

InitPitch ==
    /\ pc = "idle"
    /\ tile = NoTile
    /\ tileKey = NoTileKey
    /\ geoBox = NoGeoBox
    /\ basis = NoBasis
    /\ featureIdx = 0
    /\ env = NoEnv
    /\ calls = <<>>
    /\ data = Buffer
    /\ returned = FALSE
    /\ memo = NoMemo
    /\ heap = NoHeap
    /\ last = NoCall
    /\ \E configuration \in PitchConfigurations :
          /\ controls = [NewControls(configuration[1], TRUE, TRUE) EXCEPT
                            !.m_minPitchAngle = degToRad(configuration[2]),
                            !.m_maxPitchAngle = degToRad(configuration[3])]
          /\ mapView = NewMapView(configuration[4], MinZoomLevel, configuration[5], FALSE)
    /\ listeners = BoundListeners
    /\ trace = NoTrace
    /\ steps = 0
    /\ m_dataFilter = NoFilter
    /\ given = NoFilter

NextPitch ==
    \/ WithinSteps /\ MouseDown
    \/ WithinSteps /\ MouseMove
    \/ WithinSteps /\ MouseUp
    \/ WithinSteps /\ TouchStart
    \/ WithinSteps /\ TouchMove
    \/ WithinSteps /\ Rotate
    \/ WithinSteps /\ OrbitFocusPoint
    \/ WithinSteps /\ ToggleTilt
    \/ WithinSteps /\ AfterRender
    \/ WithinSteps /\ Tick

SpecPitch == InitPitch /\ [][NextPitch]_vars

(***************************************************************************)
(* MapControls and the zoom level: wheel events and calls of setZoomLevel, *)
(* the frames of the zoom animation and the passing of time, for as long   *)
(* as they go on.                                                          *)
(***************************************************************************)
NextZoom ==
    \/ MouseWheel
    \/ SetZoomLevel
    \/ SetEnabled
    \/ AfterRender
    \/ Tick

SpecZoom == InitControls /\ [][NextZoom]_vars

(***************************************************************************)
(* MapControls and inertia: the application sets inertiaEnabled at any     *)
(* time, also while an animation runs; it zooms and tilts, the mouse and   *)
(* the touches pan.                                                        *)
(***************************************************************************)
NextInertia ==
    \/ WithinSteps /\ SetInertiaEnabled
    \/ WithinSteps /\ SetZoomLevel
    \/ WithinSteps /\ ToggleTilt
    \/ WithinSteps /\ MouseDown
    \/ WithinSteps /\ MouseMove
    \/ WithinSteps /\ MouseUp
    \/ WithinSteps /\ TouchStart
    \/ WithinSteps /\ TouchMove
    \/ WithinSteps /\ AfterRender
    \/ WithinSteps /\ Tick

SpecInertia == InitControls /\ [][NextInertia]_vars

(***************************************************************************)
(* MapControls: claims                                                     *)
(***************************************************************************)
InputEvents ==
    {"mouseDown", "mouseMove", "mouseUp", "mouseWheel", "touchStart", "touchMove",
     "touchEnd"}

\* The step is the delivery of an input event.
Delivered == trace'.call \in InputEvents /\ steps' # steps

\* C20: while enabled is false, the delivery of an input event (mouse down,
\* mouse move, mouse up, wheel, touch start, touch move, touch end) changes
\* no field of the controls (the interaction state and the state of the
\* zoom, pan and tilt animations), nothing of the map view and its camera
\* and no listener, and dispatches no begin-interaction, update or
\* end-interaction event.
C20_DisabledIgnoresInput ==
    [][(controls.enabled = FALSE /\ Delivered)
          => /\ controls' = controls
             /\ mapView' = mapView
             /\ listeners' = listeners
             /\ trace'.dispatched = <<>>
             /\ trace'.effects = <<>>]_vars

\* A wheel event has been delivered to disabled controls whose zoom is
\* animated.
C20_Witness ==
    /\ controls.enabled = FALSE
    /\ trace.call = "mouseWheel"
    /\ controls.m_zoomIsAnimated

\* The pitches given to the camera by the last step, in their order.
PitchesWritten ==
    LET written == SelectSeq(trace.effects, LAMBDA e : e[1] = "pitch")
    IN  [k \in DOMAIN written |-> written[k][2]]

\* C23: with tiltEnabled true and minPitchAngle <= maxPitchAngle, every pitch
\* that rotate gives to the camera, called by the application, by
\* orbitFocusPoint, by a move of the mouse or of the touches or by a frame of
\* the tilt animation, lies within [minPitchAngle, maxPitchAngle], and is
\* the pitch of the camera afterwards.
C23_PitchWithinBounds ==
    (controls.tiltEnabled /\ controls.m_minPitchAngle <= controls.m_maxPitchAngle)
        => /\ \A k \in DOMAIN PitchesWritten :
                 /\ PitchesWritten[k] >= controls.m_minPitchAngle
                 /\ PitchesWritten[k] <= controls.m_maxPitchAngle
           /\ PitchesWritten # <<>> =>
                 mapView.pitch = PitchesWritten[Len(PitchesWritten)]

\* rotate was called with a delta beyond the bounds and has given the camera
\* the largest pitch allowed, which is not the largest of the grid.
C23_Witness ==
    /\ controls.tiltEnabled
    /\ trace.call = "rotate"
    /\ controls.m_minPitchAngle = 1
    /\ controls.m_maxPitchAngle = 2
    /\ PitchesWritten = <<2>>

\* C25: while tiltEnabled is false, no step (an event of the mouse or of the
\* touches, a call of rotate, orbitFocusPoint or toggleTilt, a frame of the
\* tilt animation) changes the pitch of the camera: every pitch given to the
\* camera is the pitch it had.  No step enters the ORBIT state, and a mouse
\* down of the right button changes nothing and dispatches nothing.
C25_TiltDisabled ==
    [][controls.tiltEnabled = FALSE
          => /\ mapView'.pitch = mapView.pitch
             /\ \A k \in DOMAIN PitchesWritten' : PitchesWritten'[k] = mapView.pitch
             /\ controls'.m_state # "ORBIT"
             /\ \A modifier \in BOOLEAN, point \in ScreenPoints :
                   mouseDown(Now, 2, modifier, point) = Now]_vars

\* With tiltEnabled false, rotate was called for a camera whose pitch is
\* beyond maxPitchAngle, and has given the camera the pitch it had.
C25_Witness ==
    /\ controls.tiltEnabled = FALSE
    /\ trace.call = "rotate"
    /\ mapView.pitch > controls.m_maxPitchAngle
    /\ PitchesWritten = <<mapView.pitch>>

\* The zoom level targeted after a wheel event with deltaY, delivered now.
TargetedAfterWheel(deltaY) == zoomLevelTargeted(mouseWheel(Now, deltaY, WheelOffset))

\* C24: in planar projection with enabled true, a wheel event makes the
\* targeted zoom level the one targeted before it, minus
\* zoomLevelDeltaOnMouseWheel when deltaY > 0 and plus it otherwise, clamped
\* to [minZoomLevel, maxZoomLevel]; whether a zoom animation is running or
\* not, and wherever the interpolated zoom level is.
C24_WheelMovesTarget ==
    (controls.enabled /\ mapView.projection = "Planar")
        => \A deltaY \in WheelDeltas :
              TargetedAfterWheel(deltaY) =
                  clamp(zoomLevelTargeted(Now)
                            + (IF deltaY > 0 THEN 0 - zoomLevelDeltaOnMouseWheel
                               ELSE zoomLevelDeltaOnMouseWheel),
                        controls.minZoomLevel, controls.maxZoomLevel)

\* Two wheel events in the same direction, the second while the animation of
\* the first had not moved the zoom level by one delta yet: the target is two
\* deltas from where the zoom level was.
C24_Witness ==
    /\ controls.enabled
    /\ mapView.projection = "Planar"
    /\ trace.call = "mouseWheel"
    /\ controls.m_zoomIsAnimated
    /\ controls.m_targetedZoom = <<MinZoomLevel + 2 * zoomLevelDeltaOnMouseWheel>>
    /\ controls.m_startZoom > MinZoomLevel
    /\ controls.m_startZoom < MinZoomLevel + zoomLevelDeltaOnMouseWheel

AnimationCallbacks == {"handleZoom", "pan", "tilt"}

C21_PublicFunctionsWhenDisabled ==
    controls.enabled = FALSE
        => /\ \A zoomLevel \in (controls.minZoomLevel..controls.maxZoomLevel)
                                   \ {zoomLevelTargeted(Now)} :
                 LET w == setZoomLevel(Now, zoomLevel, <<0, 0>>)
                 IN  IF mapView.projection = "Planar"
                     THEN zoomLevelTargeted(w) = zoomLevel
                     ELSE w.e # <<>>
           /\ rotate(Now, RAD2DEG, RAD2DEG).e # <<>>
           /\ moveAlongTheViewDirection(Now, PanScale).e # <<>>
           /\ mapView.projection = "Planar"
                 => /\ orbitFocusPoint(Now, RAD2DEG, RAD2DEG).e # <<>>
                    /\ toggleTilt(Now).e # <<>>

\* C22: the zoom level targeted by the controls and the zoom level of the map
\* view lie within [minZoomLevel, maxZoomLevel] after every step, and the
\* camera is moved neither away from the ground while the map view is at
\* minZoomLevel nor towards it while the map view is at maxZoomLevel.
C22_ZoomWithinBounds ==
    /\ zoomLevelTargeted(Now) >= controls.minZoomLevel
    /\ zoomLevelTargeted(Now) <= controls.maxZoomLevel
    /\ mapView.zoomLevel >= controls.minZoomLevel
    /\ mapView.zoomLevel <= controls.maxZoomLevel
    /\ \A k \in DOMAIN trace.effects :
          trace.effects[k][1] = "camera.position.addScaledVector"
              => /\ mapView.zoomLevel <= controls.minZoomLevel => trace.effects[k][2] <= 0
                 /\ mapView.zoomLevel >= controls.maxZoomLevel => trace.effects[k][2] >= 0

\* C27: a call of toggleTilt that follows another leaves tiltState other than
\* it was, and requests the other of the two pitches: tiltAngle for Tilted,
\* 0 for Down.
C27_ToggleAlternates ==
    [][(trace'.call = "toggleTilt" /\ steps' # steps /\ controls.m_tiltState # <<>>)
          => /\ controls'.m_tiltState # controls.m_tiltState
             /\ controls'.m_tiltState \in {<<"Tilted">>, <<"Down">>}]_vars

\* C28: after dispose, none of the handlers the controls have registered, on
\* the DOM element or on window, is registered any more.
C28_DisposeRemovesAll ==
    trace.call = "dispose" => listeners \cap (BoundListeners \cup WindowListeners) = {}

\* How many of the events a call has dispatched are the event.
Count(dispatched, event) == Len(SelectSeq(dispatched, LAMBDA d : d = event))

\* The state a mouse down with the button enters, if it enters one.
StateOfButton(button) ==
    CASE button = 0 -> <<"PAN">>
      [] button = 1 -> <<"ROTATE">>
      [] button = 2 /\ controls.tiltEnabled -> <<"ORBIT">>
      [] OTHER -> <<>>

\* C32: a mouse down delivered to enabled controls in the state NONE, without
\* shift or ctrl, with button 0, 1 or (tiltEnabled) 2 enters PAN, ROTATE or
\* ORBIT and dispatches one begin-interaction; any other mouse down leaves
\* the state as it is and dispatches no begin-interaction; a mouse up
\* delivered to enabled controls sets the state to NONE and dispatches one
\* end-interaction.
C32_MouseStateMachine ==
    /\ \A button \in Buttons, modifier \in BOOLEAN, point \in ScreenPoints :
          LET w == mouseDown(Now, button, modifier, point)
          IN  IF /\ controls.enabled
                 /\ ~ modifier
                 /\ controls.m_state = "NONE"
                 /\ StateOfButton(button) # <<>>
              THEN /\ <<w.c.m_state>> = StateOfButton(button)
                   /\ Count(w.d, "begin-interaction") = 1
              ELSE /\ w.c.m_state = controls.m_state
                   /\ Count(w.d, "begin-interaction") = 0
    /\ controls.enabled
          => /\ mouseUp(Now).c.m_state = "NONE"
             /\ Count(mouseUp(Now).d, "end-interaction") = 1

\* A mouse down of the right button has entered ORBIT and dispatched
\* begin-interaction.
C32_Witness ==
    /\ trace.call = "mouseDown"
    /\ controls.m_state = "ORBIT"
    /\ trace.dispatched = <<"begin-interaction">>

\* C36: with minPitchAngle <= maxPitchAngle, the pitch tilt targets, in
\* radians, lies within [m_minPitchAngle, m_maxPitchAngle], in radians.
C36_TargetedPitchWithinBounds ==
    (controls.m_targetedPitch # <<>>
        /\ controls.m_minPitchAngle <= controls.m_maxPitchAngle)
        => /\ controls.m_targetedPitch[1] >= controls.m_minPitchAngle
           /\ controls.m_targetedPitch[1] <= controls.m_maxPitchAngle

\* C35: the release of the mouse button after a mouse down that dispatched
\* begin-interaction dispatches one end-interaction, leaves the state NONE
\* and leaves no mousemove or mouseup listener on window, whatever was set
\* or delivered in between.
C35_MouseUpEndsInteraction ==
    [][(trace'.call = "mouseUp" /\ steps' # steps)
          => /\ Count(trace'.dispatched, "end-interaction") = 1
             /\ controls'.m_state = "NONE"
             /\ listeners' \cap WindowListeners = {}]_vars

(***************************************************************************)
(* MapControls, panning while the zoom is animated.  The controls are      *)
(* taken from the frame on: they were constructed, setZoomLevel was called *)
(* once, and the last frame was rendered some ticks later.  Then the mouse *)
(* and the touches pan, wheel events ask for another zoom, frames are      *)
(* rendered and time passes.                                               *)
(***************************************************************************)
\* The last frame was rendered before the damping duration was over.
FrameAges == 0..(zoomInertiaDampingDuration - 1)

InitPan ==
    /\ pc = "idle"
    /\ tile = NoTile
    /\ tileKey = NoTileKey
    /\ geoBox = NoGeoBox
    /\ basis = NoBasis
    /\ featureIdx = 0
    /\ env = NoEnv
    /\ calls = <<>>
    /\ data = Buffer
    /\ returned = FALSE
    /\ memo = NoMemo
    /\ heap = NoHeap
    /\ last = NoCall
    /\ \E configuration \in Configurations, zoomLevel \in ZoomLevels, age \in FrameAges :
          LET constructed ==
                  World(NewControls(configuration[1], configuration[2], configuration[3]),
                        NewMapView(configuration[4], MinZoomLevel, 0, FALSE),
                        BoundListeners)
              asked == setZoomLevel(constructed, zoomLevel, <<0, 0>>)
              aged == [asked EXCEPT
                         !.c.sinceZoomAnimationStart = age,
                         !.c.sincePanAnimationStart =
                             Min(@ + age, panInertiaDampingDuration + 1),
                         !.c.sinceTiltAnimationStart =
                             Min(@ + age, tiltToggleDuration + 1)]
              rendered == IF age = 0 THEN asked
                          ELSE Dispatched(aged, aged.m.afterRender)
          IN  /\ controls = rendered.c
              /\ mapView = rendered.m
              /\ listeners = rendered.l
    /\ trace = NoTrace
    /\ steps = 0
    /\ m_dataFilter = NoFilter
    /\ given = NoFilter

NextPan ==
    \/ WithinSteps /\ MouseWheel
    \/ WithinSteps /\ MouseDown
    \/ WithinSteps /\ MouseMove
    \/ WithinSteps /\ MouseUp
    \/ WithinSteps /\ TouchStart
    \/ WithinSteps /\ TouchMove
    \/ WithinSteps /\ AfterRender
    \/ WithinSteps /\ Tick

SpecPan == InitPan /\ [][NextPan]_vars

\* The zoom inertia is cancelled: either handleZoom is no listener of
\* AfterRender, or it has nothing left to do, for no zoom is requested and
\* the zoom level the animation starts from and the targeted one are both
\* the current one, which the map view has.
ZoomInertiaCancelled(w) ==
    \/ ~Has(w.m.afterRender, "handleZoom")
    \/ /\ w.c.m_zoomDeltaRequested = 0
       /\ w.c.m_startZoom = currentZoom(w)
       /\ zoomLevelTargeted(w) = currentZoom(w)
       /\ w.m.zoomLevel = currentZoom(w)

\* The step is a pan by the mouse or by the touches.
PanTriggered ==
    /\ controls.enabled
    /\ \/ /\ trace'.call = "mouseMove"
          /\ controls.m_state = "PAN"
          /\ mapView.projection = "Planar"
       \/ /\ trace'.call = "touchMove"
          /\ Len(controls'.m_touchState.touches) \in {1, 2}

\* C33: a pan during a running zoom animation cancels the zoom inertia, and
\* while it is cancelled no step but a new request of a zoom (a wheel event,
\* a call of setZoomLevel) changes the zoom level of the map view or ends
\* the cancellation: the frames rendered after the pan leave the zoom level
\* as it is.
C33_PanCancelsZoomInertia ==
    [][/\ (controls.m_zoomIsAnimated /\ PanTriggered) => ZoomInertiaCancelled(Now')
       /\ (ZoomInertiaCancelled(Now) /\ trace'.call \notin {"mouseWheel", "setZoomLevel"})
             => /\ ZoomInertiaCancelled(Now')
                /\ mapView'.zoomLevel = mapView.zoomLevel]_vars

\* A frame is rendered with handleZoom still listening after a touch pan
\* made the zoom level reached by then the start and the target of the
\* animation, and the map view keeps that zoom level.
C33_Witness ==
    /\ trace.call = "AfterRender"
    /\ Has(mapView.afterRender, "handleZoom")
    /\ controls.m_state = "TOUCH"
    /\ controls.m_startZoom # MinZoomLevel
    /\ mapView.zoomLevel = controls.m_startZoom
    /\ ZoomInertiaCancelled(Now)

(***************************************************************************)
(* MapControls, the end of the animations.  The application zooms, tilts   *)
(* and sets inertiaEnabled; after at most MaxSteps steps there is no       *)
(* further input, frames are rendered and time passes.  The map view       *)
(* renders a frame whenever a listener of AfterRender has something to     *)
(* change, and the clock advances.                                         *)
(***************************************************************************)
NextFrames ==
    \/ WithinSteps /\ SetZoomLevel
    \/ WithinSteps /\ ToggleTilt
    \/ WithinSteps /\ SetInertiaEnabled
    \/ AfterRender
    \/ Tick

\* A frame would change something: AfterRender has listeners, and calling
\* them changes the controls, the map view or what the call did.
FrameDue ==
    /\ mapView.afterRender # <<>>
    /\ LET w == Dispatched(Now, mapView.afterRender)
       IN  \/ w.c # controls
           \/ w.m # mapView
           \/ w.l # listeners
           \/ Trace("AfterRender", w.d, w.e) # trace
           \/ steps < MaxSteps

\* Weak fairness of AfterRender, with FrameDue for ENABLED <<AfterRender>>_vars.
FramesKeepBeingRendered == []<>(~FrameDue) \/ []<><<AfterRender>>_vars

SpecFrames ==
    InitControls /\ [][NextFrames]_vars /\ WF_vars(Tick) /\ FramesKeepBeingRendered

\* C34: a registered animation callback is eventually unregistered and its
\* flag cleared, once the inputs have ended and frames keep being rendered.
C34_AnimationsTerminate ==
    (mapView.afterRender # <<>>)
        ~> /\ mapView.afterRender = <<>>
           /\ ~controls.m_zoomIsAnimated
           /\ ~controls.m_panIsAnimated
           /\ ~controls.m_tiltIsAnimated

============================================================================
